---- MODULE Spec2Model ----
(***************************************************************************)
(* The vulnerability batch-query cache of aegis: the in-memory cache       *)
(* (app/services/cache.py), the batch query orchestrator and its TTL       *)
(* policy (app/modules/osv.py).                                            *)
(*                                                                         *)
(* Scheduling: one asyncio event loop.  A coroutine runs until it really   *)
(* suspends.  The cache lock is only ever held inside one primitive, which *)
(* contains no await, so acquiring it never suspends; the suspension       *)
(* points are the HTTP request and the polling sleep of wait_for_ready.    *)
(* Each action below is the code between two suspension points.            *)
(***************************************************************************)
EXTENDS Integers, Sequences, FiniteSets, TLC

VARIABLES
    cache,      \* InMemoryAsyncCache._store: cache key -> CacheEntry
    clock,      \* time.time(), in seconds
    call,       \* per caller: the frame of its query_osv_batch call
    projects,             \* store._projects
    dependencies,         \* store._dependencies
    next_project_id,      \* store._next_project_id
    next_dependency_id,   \* store._next_dependency_id
    ncalls,     \* number of calls started so far
    stuck,      \* history: keys whose claiming call's request failed
    fetchlog,   \* history: per key, the results the OSV service returned for it
    mono,       \* time.monotonic(), in poll ticks
    waiter,     \* the frame of a wait_for_ready call
    readyAt,    \* history: per key, the monotonic time it first became 'ready'
    vulns_in,   \* the vulnerability list the TTL policy is applied to
    highest_out,  \* what _extract_highest_severity gave for it, if applied
    ttl_out,      \* what _calculate_ttl gave for it, if applied
    ret,        \* the outcome of the last direct call of a cache or store function
    lock,       \* InMemoryAsyncCache._lock: the task that holds it, if any
    running,    \* the task the event loop is running, if any
    task        \* per task: where it stands in a cache primitive

waitvars == <<mono, waiter, readyAt>>

policyvars == <<vulns_in, highest_out, ttl_out>>

lockvars == <<lock, running, task>>

vars == <<cache, clock, call, projects, dependencies, next_project_id,
          next_dependency_id, ncalls, stuck, fetchlog, mono, waiter, readyAt,
          vulns_in, highest_out, ttl_out, ret, lock, running, task>>

(* ---------------------------------------------------------------- bounds *)
MaxCalls == 3
MaxTimeout == 3
MaxPollInterval == 2
MaxMono == 7
MaxVulns == 2

(* ------------------------------------------------------- Optional values *)
None == <<>>
Some(x) == <<x>>
IsNone(o) == o = <<>>
Val(o) == o[1]

(* ------------------------------------------------------------ TTL policy *)
TTL_NONE == 86400
TTL_MODERATE == 43200
TTL_HIGH == 14400
TTL_CRITICAL == 3600
TTL_DEFAULT == 3600

SEVERITY_ORDER == <<"CRITICAL", "HIGH", "MODERATE", "LOW">>

SEVERITY_TTL == [s \in {"CRITICAL", "HIGH", "MODERATE", "LOW"} |->
                   CASE s = "CRITICAL" -> TTL_CRITICAL
                     [] s = "HIGH" -> TTL_HIGH
                     [] s = "MODERATE" -> TTL_MODERATE
                     [] s = "LOW" -> TTL_NONE]

\* list.index(x): the position of x, or ValueError (0) when x is not in it
Index(seq, x) == IF \E i \in 1..Len(seq) : seq[i] = x
                 THEN CHOOSE i \in 1..Len(seq) : seq[i] = x /\ \A j \in 1..(i-1) : seq[j] # x
                 ELSE 0

\* str.upper() on the severity labels that occur
Upper(s) == CASE s = "critical" -> "CRITICAL"
              [] s = "high" -> "HIGH"
              [] s = "moderate" -> "MODERATE"
              [] s = "low" -> "LOW"
              [] OTHER -> s

\* Mutant: the label seen last wins
SevStepLast(acc, label) == [acc EXCEPT !.highest = Some(Upper(label))]

\* One comparison step of the scan: acc = [raised, highest (Optional label)]
SevStep(acc, label) ==
    LET sev_type == Upper(label) IN
    IF acc.raised THEN acc
    ELSE IF IsNone(acc.highest) THEN [acc EXCEPT !.highest = Some(sev_type)]
    ELSE IF Index(SEVERITY_ORDER, sev_type) = 0 \/ Index(SEVERITY_ORDER, Val(acc.highest)) = 0
         THEN [acc EXCEPT !.raised = TRUE]
    ELSE IF Index(SEVERITY_ORDER, sev_type) < Index(SEVERITY_ORDER, Val(acc.highest))
         THEN [acc EXCEPT !.highest = Some(sev_type)]
    ELSE acc

RECURSIVE SevFold(_, _)
SevFold(acc, labels) ==
    IF labels = <<>> THEN acc ELSE SevFold(SevStep(acc, Head(labels)), Tail(labels))

RECURSIVE Flatten(_)
Flatten(seqs) == IF seqs = <<>> THEN <<>> ELSE Head(seqs) \o Flatten(Tail(seqs))

\* Mutant: the severities of the affected packages are not looked at
VulnLabelsTopOnly(vuln) == vuln.severity

\* The labels of one vulnerability in the order the code visits them
VulnLabels(vuln) == vuln.severity \o Flatten(vuln.affected)

RECURSIVE AllLabels(_)
AllLabels(vulns) ==
    IF vulns = <<>> THEN <<>> ELSE VulnLabels(Head(vulns)) \o AllLabels(Tail(vulns))

\* _extract_highest_severity: [raised |-> ValueError?, value |-> the label]
ExtractHighestSeverity(vulns) ==
    LET r == SevFold([raised |-> FALSE, highest |-> None], AllLabels(vulns)) IN
    IF r.raised THEN [raised |-> TRUE, value |-> "LOW"]
    ELSE [raised |-> FALSE, value |-> IF IsNone(r.highest) THEN "LOW" ELSE Val(r.highest)]

\* Mutant: a label outside the table gets the no-vulnerability TTL
CalculateTtlFallbackNone(vulns) ==
    IF vulns = <<>> THEN [raised |-> FALSE, value |-> TTL_NONE]
    ELSE LET h == ExtractHighestSeverity(vulns) IN
         IF h.raised THEN [raised |-> TRUE, value |-> 0]
         ELSE [raised |-> FALSE,
               value |-> IF h.value \in DOMAIN SEVERITY_TTL THEN SEVERITY_TTL[h.value]
                         ELSE TTL_NONE]

\* _calculate_ttl: [raised, value]
CalculateTtl(vulns) ==
    IF vulns = <<>> THEN [raised |-> FALSE, value |-> TTL_NONE]
    ELSE LET h == ExtractHighestSeverity(vulns) IN
         IF h.raised THEN [raised |-> TRUE, value |-> 0]
         ELSE [raised |-> FALSE,
               value |-> IF h.value \in DOMAIN SEVERITY_TTL THEN SEVERITY_TTL[h.value]
                         ELSE TTL_DEFAULT]

(* ------------------------------------------------------------ identities *)
\* str.lower() on the package names that occur
Lower(n) == IF n = "Foo" THEN "foo" ELSE n

Requirement(n, v) == [name |-> n, version |-> v]

\* f"{req.name.lower()}@{version}"
DeriveKey(req) == <<Lower(req.name), req.version>>

\* key + ':refresh'
RefreshKey(key) == Append(key, "refresh")

\* Requirement lists that name an identity more than once
DupInputs == { <<Requirement("foo", "1")>>,
               <<Requirement("foo", "1"), Requirement("Foo", "1")>>,
               <<Requirement("bar", "1"), Requirement("foo", "1"), Requirement("Foo", "1")>> }

\* The requirement lists the callers pass
Inputs == { <<Requirement("foo", "1")>>,
            <<Requirement("bar", "1"), Requirement("Foo", "1")>> }

Keys == UNION { { DeriveKey(inp[i]) : i \in DOMAIN inp } : inp \in Inputs }

\* What the OSV service may answer for one query
Clean == <<>>
Crit == << [id |-> "V1", severity |-> <<"CRITICAL">>, affected |-> <<>>] >>
OsvAnswers == {Clean, Crit}

\* The responses with one result per query
Batches(n) == [1..n -> OsvAnswers]

\* The project names the handlers are called with
ProjectNames == {"p"}

(* ----------------------------------------------------------------- cache *)
CacheEntry(status, data, expiry_timestamp) ==
    [status |-> status, data |-> data, expiry_timestamp |-> expiry_timestamp]

Fetching == CacheEntry("fetching", None, None)

\* Mutant: the insert does not test for presence
add_overwrite(s, key, entry) ==
    [cache |-> [k \in DOMAIN s \cup {key} |-> IF k = key THEN entry ELSE s[k]],
     added |-> TRUE]

\* Mutant: the add leaves a present entry alone but reports success
add_reports_true(s, key, entry) ==
    IF key \in DOMAIN s THEN [cache |-> s, added |-> TRUE]
    ELSE [cache |-> [k \in DOMAIN s \cup {key} |-> IF k = key THEN entry ELSE s[k]],
          added |-> TRUE]

add_if_not_exists(s, key, entry) ==
    IF key \in DOMAIN s THEN [cache |-> s, added |-> FALSE]
    ELSE [cache |-> [k \in DOMAIN s \cup {key} |-> IF k = key THEN entry ELSE s[k]],
          added |-> TRUE]

get(s, key) == IF key \in DOMAIN s THEN Some(s[key]) ELSE None

set(s, key, entry) == [k \in DOMAIN s \cup {key} |-> IF k = key THEN entry ELSE s[k]]

pop(s, key) == [k \in DOMAIN s \ {key} |-> s[k]]

(* ------------------------------------------------------- query_osv_batch *)
\* The exceptions a failed request raises
Errors == {"HTTPStatusError", "TransportError"}

Handlers == {"h1", "h2"}
Scan == "scan"
Callers == Handlers \cup {Scan}

\* dict assignment d[key] = value
Put(d, key, value) == [k \in DOMAIN d \cup {key} |-> IF k = key THEN value ELSE d[k]]

EmptyDict == [k \in {} |-> None]

RECURSIVE DepKeys(_)
DepKeys(requirements) ==
    IF requirements = <<>> THEN <<>>
    ELSE <<DeriveKey(Head(requirements))>> \o DepKeys(Tail(requirements))

\* The frame of one call: the locals of query_osv_batch, where it is suspended
\* (pc), what it returned (out), and history of how each key was triaged.
IdleFrame ==
    [pc |-> "idle", kind |-> "none", name |-> "", status |-> 0,
     requirements |-> <<>>, results |-> EmptyDict,
     to_fetch |-> <<>>, waiters |-> <<>>, widx |-> 1,
     now |-> 0, out |-> None,
     resp |-> <<>>, claimed |-> {}, refreshing |-> {},
     fresh |-> EmptyDict, stale |-> EmptyDict, since |-> EmptyDict,
     timed |-> {}, failed |-> FALSE, skipped |-> {}, sent |-> <<>>,
     error |-> "", project_id |-> 0]

\* Mutant: every ready entry is taken for expired
IsFreshNever(entry, now) == FALSE

\* Lines 73-74: a ready entry is fresh when it has an expiry that lies after now
IsFresh(entry, now) ==
    ~IsNone(entry.expiry_timestamp) /\ Val(entry.expiry_timestamp) # 0
        /\ Val(entry.expiry_timestamp) > now

\* Mutant: a caller that finds the refresh guard taken waits for the key
TriageKeyWaitOnGuard(st, key) ==
    LET f == [st.f EXCEPT !.since = IF key \in DOMAIN @ THEN @
                                    ELSE Put(@, key, Len(fetchlog[key]))]
        entry == get(st.cache, key) IN
    IF IsNone(entry) THEN
        LET r == add_if_not_exists(st.cache, key, Fetching) IN
        IF r.added
        THEN [cache |-> r.cache,
              f |-> [f EXCEPT !.to_fetch = Append(@, key), !.claimed = @ \cup {key}]]
        ELSE [cache |-> r.cache, f |-> [f EXCEPT !.waiters = Append(@, key)]]
    ELSE IF Val(entry).status = "ready" THEN
        IF IsFresh(Val(entry), f.now)
        THEN [cache |-> st.cache,
              f |-> [f EXCEPT !.results = Put(@, key, Val(Val(entry).data)),
                              !.fresh = Put(@, key, Val(Val(entry).data))]]
        ELSE LET r == add_if_not_exists(st.cache, RefreshKey(key), Fetching)
                 g == [f EXCEPT !.results = Put(@, key, Val(Val(entry).data)),
                                !.stale = Put(@, key, Val(Val(entry).data))] IN
             IF r.added
             THEN [cache |-> r.cache,
                   f |-> [g EXCEPT !.to_fetch = Append(@, key),
                                   !.refreshing = @ \cup {key}]]
             ELSE [cache |-> r.cache, f |-> [g EXCEPT !.waiters = Append(@, key)]]
    ELSE IF Val(entry).status = "fetching" THEN
        [cache |-> st.cache, f |-> [f EXCEPT !.waiters = Append(@, key)]]
    ELSE st

\* Phase 1, one key (lines 66-82): st = [cache, f]
TriageKey(st, key) ==
    LET f == [st.f EXCEPT !.since = IF key \in DOMAIN @ THEN @
                                    ELSE Put(@, key, Len(fetchlog[key]))]
        entry == get(st.cache, key) IN
    IF IsNone(entry) THEN
        LET r == add_if_not_exists(st.cache, key, Fetching) IN
        IF r.added
        THEN [cache |-> r.cache,
              f |-> [f EXCEPT !.to_fetch = Append(@, key), !.claimed = @ \cup {key}]]
        ELSE [cache |-> r.cache, f |-> [f EXCEPT !.waiters = Append(@, key)]]
    ELSE IF Val(entry).status = "ready" THEN
        IF IsFresh(Val(entry), f.now)
        THEN [cache |-> st.cache,
              f |-> [f EXCEPT !.results = Put(@, key, Val(Val(entry).data)),
                              !.fresh = Put(@, key, Val(Val(entry).data))]]
        ELSE LET r == add_if_not_exists(st.cache, RefreshKey(key), Fetching)
                 g == [f EXCEPT !.results = Put(@, key, Val(Val(entry).data)),
                                !.stale = Put(@, key, Val(Val(entry).data))] IN
             IF r.added
             THEN [cache |-> r.cache,
                   f |-> [g EXCEPT !.to_fetch = Append(@, key),
                                   !.refreshing = @ \cup {key}]]
             ELSE [cache |-> r.cache, f |-> g]
    ELSE IF Val(entry).status = "fetching" THEN
        [cache |-> st.cache, f |-> [f EXCEPT !.waiters = Append(@, key)]]
    ELSE st

RECURSIVE Phase1(_, _)
Phase1(st, keys) ==
    IF keys = <<>> THEN st ELSE Phase1(TriageKey(st, Head(keys)), Tail(keys))

\* Mutant: one request per key to fetch
RequestPerKey(f) ==
    [f EXCEPT !.pc = "fetching",
              !.sent = @ \o [i \in DOMAIN f.to_fetch |-> <<f.to_fetch[i]>>]]

\* Lines 86-94: the one request, for fetch_keys = to_fetch, is sent and awaited;
\* sent is the history of the requests of the call
Request(f) == [f EXCEPT !.pc = "fetching", !.sent = Append(@, f.to_fetch)]

\* Mutant: the result list in reverse order
ReturnReversed(f) ==
    LET dep_keys == DepKeys(f.requirements) IN
    IF \A i \in DOMAIN dep_keys : dep_keys[i] \in DOMAIN f.results
    THEN [f EXCEPT !.pc = "returned",
                   !.out = Some([i \in DOMAIN dep_keys |->
                                    f.results[dep_keys[Len(dep_keys) + 1 - i]]])]
    ELSE [f EXCEPT !.pc = "raised"]

\* Line 118: the result list, or KeyError when a key has no recorded result
Return(f) ==
    LET dep_keys == DepKeys(f.requirements) IN
    IF \A i \in DOMAIN dep_keys : dep_keys[i] \in DOMAIN f.results
    THEN [f EXCEPT !.pc = "returned",
                   !.out = Some([i \in DOMAIN dep_keys |-> f.results[dep_keys[i]]])]
    ELSE [f EXCEPT !.pc = "raised"]

\* Mutant: the waited data is dropped for the empty result
WaitedEmpty(f, key, data) == [f EXCEPT !.results = Put(@, key, Clean), !.widx = @ + 1]

\* Lines 113-114: wait_for_ready returned data
Waited(f, key, data) == [f EXCEPT !.results = Put(@, key, data), !.widx = @ + 1]

\* Mutant: a timeout records no result
TimedOutNoResult(f, key) == [f EXCEPT !.timed = @ \cup {key}, !.widx = @ + 1]

\* Mutant: the wait has no timeout, the caller goes on waiting for the key
TimedOutWaitsOn(f, key) == f

\* Lines 115-116: wait_for_ready returned None, the timeout elapsed
TimedOut(f, key) ==
    [f EXCEPT !.results = Put(@, key, Clean), !.timed = @ \cup {key}, !.widx = @ + 1]

\* Mutant: wait_for_ready gives up before its first poll
Phase3NoPoll(f, s) ==
    LET rest == { f.waiters[i] : i \in f.widx..Len(f.waiters) } IN
    Return([f EXCEPT !.results = [k \in DOMAIN @ \cup rest |->
                                     IF k \in rest THEN Clean ELSE @[k]],
                     !.timed = @ \cup rest,
                     !.widx = Len(f.waiters) + 1])

\* Phase 3 (lines 111-116) from waiter widx on, each wait_for_ready starting
\* with a poll (cache.py 38-42), up to the first sleep or to the return.
RECURSIVE Phase3(_, _)
Phase3(f, s) ==
    IF f.widx > Len(f.waiters) THEN Return(f)
    ELSE LET key == f.waiters[f.widx]
             entry == get(s, key) IN
         IF ~IsNone(entry) /\ Val(entry).status = "ready"
         THEN Phase3(Waited(f, key, Val(Val(entry).data)), s)
         ELSE [f EXCEPT !.pc = "sleeping"]

\* Mutant: the refresh guard is left in place
StoreResultKeepGuard(st, key, res, t) ==
    LET ttl == CalculateTtl(res) IN
    IF st.raised THEN st
    ELSE IF ttl.raised THEN [st EXCEPT !.raised = TRUE]
    ELSE [cache |-> set(st.cache, key, CacheEntry("ready", Some(res), Some(t + ttl.value))),
          f |-> [st.f EXCEPT !.results = Put(@, key, res)],
          raised |-> FALSE]

\* Mutant: the fetched result does not replace an entry that is there
StoreResultIfAbsent(st, key, res, t) ==
    LET ttl == CalculateTtl(res) IN
    IF st.raised THEN st
    ELSE IF ttl.raised THEN [st EXCEPT !.raised = TRUE]
    ELSE [cache |-> pop(add_if_not_exists(st.cache, key,
                            CacheEntry("ready", Some(res), Some(t + ttl.value))).cache,
                        RefreshKey(key)),
          f |-> [st.f EXCEPT !.results = Put(@, key, res)],
          raised |-> FALSE]

\* Mutant: the key itself is popped in place of its refresh guard
StoreResultPopsKey(st, key, res, t) ==
    LET ttl == CalculateTtl(res) IN
    IF st.raised THEN st
    ELSE IF ttl.raised THEN [st EXCEPT !.raised = TRUE]
    ELSE [cache |-> pop(set(st.cache, key, CacheEntry("ready", Some(res), Some(t + ttl.value))),
                        key),
          f |-> [st.f EXCEPT !.results = Put(@, key, res)],
          raised |-> FALSE]

\* Mutant: a stored result clears every refresh guard of the cache
StoreResultClearsGuards(st, key, res, t) ==
    LET ttl == CalculateTtl(res) IN
    IF st.raised THEN st
    ELSE IF ttl.raised THEN [st EXCEPT !.raised = TRUE]
    ELSE [cache |-> LET s == set(st.cache, key,
                                 CacheEntry("ready", Some(res), Some(t + ttl.value))) IN
                    [k \in { x \in DOMAIN s : Len(x) = 2 } |-> s[k]],
          f |-> [st.f EXCEPT !.results = Put(@, key, res)],
          raised |-> FALSE]

\* Lines 97-108 for one (key, res) of the zip: st = [cache, f, raised]
StoreResult(st, key, res, t) ==
    LET ttl == CalculateTtl(res) IN
    IF st.raised THEN st
    ELSE IF ttl.raised THEN [st EXCEPT !.raised = TRUE]
    ELSE [cache |-> pop(set(st.cache, key, CacheEntry("ready", Some(res), Some(t + ttl.value))),
                        RefreshKey(key)),
          f |-> [st.f EXCEPT !.results = Put(@, key, res)],
          raised |-> FALSE]

RECURSIVE Phase2(_, _, _, _)
Phase2(st, fetch_keys, batch, t) ==
    IF fetch_keys = <<>> \/ batch = <<>> THEN st
    ELSE Phase2(StoreResult(st, Head(fetch_keys), Head(batch), t),
                Tail(fetch_keys), Tail(batch), t)

(* ----------------------------------------------------------- data store *)
\* The four module globals of app/data/store.py as one value
Db == [projects |-> projects, dependencies |-> dependencies,
       next_project_id |-> next_project_id, next_dependency_id |-> next_dependency_id]

\* add_project: DuplicateProjectError, or the project appended
add_project(db, name) ==
    IF \E i \in DOMAIN db.projects : db.projects[i].name = name
    THEN [db |-> db, raised |-> TRUE, project_id |-> 0]
    ELSE [db |-> [db EXCEPT !.projects = Append(@, [id |-> db.next_project_id, name |-> name]),
                            !.next_project_id = @ + 1],
          raised |-> FALSE, project_id |-> db.next_project_id]

\* Mutant: the name is not compared with the other projects' names
update_project_unchecked(db, project_id, name) ==
    IF ~\E i \in DOMAIN db.projects : db.projects[i].id = project_id
    THEN [db |-> db, raised |-> "ProjectNotFoundError"]
    ELSE [db |-> [db EXCEPT !.projects =
                    [i \in DOMAIN @ |-> IF @[i].id = project_id
                                        THEN [id |-> project_id, name |-> name]
                                        ELSE @[i]]],
          raised |-> ""]

\* update_project: ProjectNotFoundError, DuplicateProjectError, or the
\* project's name replaced
update_project(db, project_id, name) ==
    IF ~\E i \in DOMAIN db.projects : db.projects[i].id = project_id
    THEN [db |-> db, raised |-> "ProjectNotFoundError"]
    ELSE IF \E i \in DOMAIN db.projects :
                db.projects[i].id # project_id /\ db.projects[i].name = name
    THEN [db |-> db, raised |-> "DuplicateProjectError"]
    ELSE [db |-> [db EXCEPT !.projects =
                    [i \in DOMAIN @ |-> IF @[i].id = project_id
                                        THEN [id |-> project_id, name |-> name]
                                        ELSE @[i]]],
          raised |-> ""]

\* [p for p in _projects if p.get("id") != target_id]
remove_project_by_id(db, target_id) ==
    LET Keep(p) == p.id # target_id IN SelectSeq(db.projects, Keep)

\* Mutant: the records of the other projects are dropped
delete_dependencies_of_others(db, project_id) ==
    LET Keep(dep) == dep.project_id = project_id IN
    [db EXCEPT !.dependencies = SelectSeq(@, Keep)]

delete_dependencies_by_project_id(db, project_id) ==
    LET Keep(dep) == dep.project_id # project_id IN
    [db EXCEPT !.dependencies = SelectSeq(@, Keep)]

\* Mutant: the project goes, its dependency records stay
delete_project_only(db, project_id) ==
    IF ~\E i \in DOMAIN db.projects : db.projects[i].id = project_id
    THEN [db |-> db, raised |-> "ProjectNotFoundError"]
    ELSE [db |-> [db EXCEPT !.projects = remove_project_by_id(db, project_id)],
          raised |-> ""]

\* delete_project: ProjectNotFoundError, or the project and its dependency
\* records removed
delete_project(db, project_id) ==
    IF ~\E i \in DOMAIN db.projects : db.projects[i].id = project_id
    THEN [db |-> db, raised |-> "ProjectNotFoundError"]
    ELSE [db |-> delete_dependencies_by_project_id(
                     [db EXCEPT !.projects = remove_project_by_id(db, project_id)],
                     project_id),
          raised |-> ""]

RECURSIVE add_dependencies(_, _, _)
add_dependencies(db, project_id, deps) ==
    IF deps = <<>> THEN db
    ELSE add_dependencies(
           [db EXCEPT !.dependencies =
                        Append(@, [id |-> db.next_dependency_id, project_id |-> project_id,
                                   name |-> Head(deps).name, version |-> Head(deps).version,
                                   is_vulnerable |-> Head(deps).is_vulnerable,
                                   vulnerability_ids |-> Head(deps).vulnerability_ids]),
                      !.next_dependency_id = @ + 1],
           project_id, Tail(deps))

\* update_dependencies: the old records of the project out, the new ones in
update_dependencies(db, project_id, deps) ==
    add_dependencies(delete_dependencies_by_project_id(db, project_id), project_id, deps)

\* Mutant: only the first matching record is updated
update_first_dependency_vulnerability(db, name, version, is_vulnerable, vulnerability_ids) ==
    [db EXCEPT !.dependencies =
        [i \in DOMAIN @ |->
            IF /\ @[i].name = Lower(name) /\ @[i].version = version
               /\ \A j \in 1..(i - 1) : ~(@[j].name = Lower(name) /\ @[j].version = version)
            THEN [@[i] EXCEPT !.is_vulnerable = is_vulnerable,
                              !.vulnerability_ids = vulnerability_ids]
            ELSE @[i]]]

update_dependency_vulnerability(db, name, version, is_vulnerable, vulnerability_ids) ==
    [db EXCEPT !.dependencies =
        [i \in DOMAIN @ |->
            IF @[i].name = Lower(name) /\ @[i].version = version
            THEN [@[i] EXCEPT !.is_vulnerable = is_vulnerable,
                              !.vulnerability_ids = vulnerability_ids]
            ELSE @[i]]]

\* [v.id for v in vulns]
VulnIds(vulns) == [i \in DOMAIN vulns |-> vulns[i].id]

(* ---------------------------------------------------------- route handler *)
\* create_project, lines 105-114: the records built from the query's result
DependenciesToStore(requirements, results) ==
    [i \in 1..(IF Len(requirements) < Len(results) THEN Len(requirements) ELSE Len(results)) |->
        [name |-> Lower(requirements[i].name), version |-> requirements[i].version,
         is_vulnerable |-> results[i] # <<>>, vulnerability_ids |-> VulnIds(results[i])]]

\* Mutant: an exception of the query is swallowed and the project created
CreateProjectSwallow(st) ==
    LET f == st.f
        r == add_project(st.db, f.name) IN
    IF r.raised THEN [st EXCEPT !.f.status = 409]
    ELSE [st EXCEPT !.db = IF f.pc = "raised" THEN r.db
                           ELSE add_dependencies(r.db, r.project_id,
                                    DependenciesToStore(f.requirements, Val(f.out))),
                    !.f.status = 201]

\* create_project after query_osv_batch: st = [cache, f, db]
CreateProjectDone(st) ==
    LET f == st.f IN
    IF f.pc = "raised"
    THEN [st EXCEPT !.f.status = IF f.error = "HTTPStatusError" THEN 502 ELSE 500]
    ELSE LET r == add_project(st.db, f.name) IN
         IF r.raised THEN [st EXCEPT !.f.status = 409]
         ELSE [st EXCEPT !.db = add_dependencies(r.db, r.project_id,
                                    DependenciesToStore(f.requirements, Val(f.out))),
                         !.f.status = 201]

\* Mutant: the dependency records are replaced before the project is looked up
UpdateProjectDoneDepsFirst(st) ==
    LET f == st.f IN
    IF f.pc = "raised"
    THEN [st EXCEPT !.f.status = IF f.error = "HTTPStatusError" THEN 502 ELSE 500]
    ELSE LET r == update_project(st.db, f.project_id, f.name)
             deps == DependenciesToStore(f.requirements, Val(f.out)) IN
         IF r.raised = "DuplicateProjectError"
         THEN [st EXCEPT !.db = update_dependencies(st.db, f.project_id, deps),
                         !.f.status = 409]
         ELSE IF r.raised = "ProjectNotFoundError"
         THEN [st EXCEPT !.db = update_dependencies(st.db, f.project_id, deps),
                         !.f.status = 404]
         ELSE [st EXCEPT !.db = update_dependencies(r.db, f.project_id, deps),
                         !.f.status = 200]

\* update_project (the handler) after query_osv_batch: st = [cache, f, db]
UpdateProjectDone(st) ==
    LET f == st.f IN
    IF f.pc = "raised"
    THEN [st EXCEPT !.f.status = IF f.error = "HTTPStatusError" THEN 502 ELSE 500]
    ELSE LET r == update_project(st.db, f.project_id, f.name) IN
         IF r.raised = "DuplicateProjectError" THEN [st EXCEPT !.f.status = 409]
         ELSE IF r.raised = "ProjectNotFoundError" THEN [st EXCEPT !.f.status = 404]
         ELSE [st EXCEPT !.db = update_dependencies(r.db, f.project_id,
                                    DependenciesToStore(f.requirements, Val(f.out))),
                         !.f.status = 200]

(* ------------------------------------------------------------- scheduler *)
\* scheduled_vulnerability_scan, lines 97-108, for one (req, query_vulns)
ScanUpdate(st, req, query_vulns, t) ==
    LET ttl == CalculateTtl(query_vulns) IN
    IF st.f.pc = "raised" THEN st
    ELSE IF ttl.raised THEN [st EXCEPT !.f.pc = "raised"]
    ELSE [st EXCEPT
            !.cache = set(@, DeriveKey(req),
                          CacheEntry("ready", Some(query_vulns), Some(t + ttl.value))),
            !.db = update_dependency_vulnerability(@, Lower(req.name), req.version,
                       query_vulns # <<>>, VulnIds(query_vulns))]

RECURSIVE ScanUpdates(_, _, _, _)
ScanUpdates(st, reqs, results, t) ==
    IF reqs = <<>> \/ results = <<>> THEN st
    ELSE ScanUpdates(ScanUpdate(st, Head(reqs), Head(results), t),
                     Tail(reqs), Tail(results), t)

\* scheduled_vulnerability_scan after query_osv_batch: an exception of the
\* query ends the job; otherwise the cache and the store are written.
ScanDone(st, t) ==
    IF st.f.pc = "raised" THEN st
    ELSE ScanUpdates(st, st.f.requirements, Val(st.f.out), t)

\* What the caller of query_osv_batch does once the call has ended
Settle(st, t) ==
    IF st.f.pc \notin {"returned", "raised"} THEN st
    ELSE IF st.f.kind = "scan" THEN ScanDone(st, t)
    ELSE IF st.f.kind = "update" THEN UpdateProjectDone(st)
    ELSE CreateProjectDone(st)

\* Mutant: an entry without expiry counts as expired
ScanStaleNoExpiry(s, key, t) ==
    \/ IsNone(get(s, key))
    \/ IsNone(Val(get(s, key)).expiry_timestamp)
    \/ t > Val(Val(get(s, key)).expiry_timestamp)

\* Lines 73-77 of the scan: the entry is missing or expired
ScanStale(s, key, t) ==
    \/ IsNone(get(s, key))
    \/ /\ ~IsNone(Val(get(s, key)).expiry_timestamp)
       /\ Val(Val(get(s, key)).expiry_timestamp) # 0
       /\ t > Val(Val(get(s, key)).expiry_timestamp)

\* {(dep["name"], dep["version"]) for dep in all_deps}
UniqueDeps(deps) == { Requirement(deps[i].name, deps[i].version) : i \in DOMAIN deps }

\* The iteration orders of a set
Orders(S) == { q \in [1..Cardinality(S) -> S] : \A x \in S : \E i \in DOMAIN q : q[i] = x }

\* Mutant: every tracked dependency is passed on, stale or not
StaleReqsAll(order, s, t) == order

\* SelectSeq with a two-argument test
RECURSIVE StaleReqs(_, _, _)
StaleReqs(order, s, t) ==
    IF order = <<>> THEN <<>>
    ELSE (IF ScanStale(s, DeriveKey(Head(order)), t) THEN <<Head(order)>> ELSE <<>>)
         \o StaleReqs(Tail(order), s, t)

\* History: the tracked keys the scan's filter passes over
Skipped(order) ==
    { DeriveKey(order[i]) : i \in { j \in DOMAIN order :
                                       ~ScanStale(cache, DeriveKey(order[j]), clock) } }

(* -------------------------------------------------------- wait_for_ready *)
Timeouts == 1..MaxTimeout
PollIntervals == 1..MaxPollInterval

IdleWaiter ==
    [pc |-> "idle", key |-> None, timeout |-> 0, poll_interval |-> 0,
     start |-> 0, wake |-> 0, result |-> None]

\* Mutant: the loop never looks at the elapsed time
WithinTimeoutAlways(wr, t) == TRUE

\* Line 38: the loop condition
WithinTimeout(wr, t) == t - wr.start < wr.timeout

\* Mutant: any entry at the key ends the wait
PollAnyEntry(entry) == ~IsNone(entry)

\* Line 40: the entry exists and is 'ready'
PollReady(entry) == ~IsNone(entry) /\ Val(entry).status = "ready"

\* Lines 38-43 from the loop condition to the next sleep or to the return,
\* at monotonic time t
Poll(wr, s, t) ==
    IF WithinTimeout(wr, t)
    THEN LET entry == get(s, Val(wr.key)) IN
         IF PollReady(entry)
         THEN [wr EXCEPT !.pc = "done", !.result = Val(entry).data]
         ELSE [wr EXCEPT !.pc = "sleeping", !.wake = t + wr.poll_interval]
    ELSE [wr EXCEPT !.pc = "done", !.result = None]

(* --------------------------------------------------------------- actions *)
\* A task that is in no cache primitive
IdleTask == [pc |-> "idle", op |-> "", key |-> <<>>, raised |-> FALSE]

BaseInit ==
    /\ cache = [k \in {} |-> Fetching]
    /\ clock = 1000
    /\ call = [c \in Callers |-> IdleFrame]
    /\ projects = <<>>
    /\ dependencies = <<>>
    /\ next_project_id = 1
    /\ next_dependency_id = 1
    /\ ncalls = 0
    /\ stuck = {}
    /\ fetchlog = [k \in Keys |-> <<>>]
    /\ mono = 0
    /\ waiter = IdleWaiter
    /\ readyAt = [k \in Keys |-> None]
    /\ ret = None
    /\ lock = None
    /\ running = None
    /\ task = [t \in Handlers |-> IdleTask]

Init ==
    /\ BaseInit
    /\ vulns_in = <<>>
    /\ highest_out = None
    /\ ttl_out = None

\* The joint update every step of a call makes
Commit(c, st) ==
    /\ cache' = st.cache
    /\ call' = [call EXCEPT ![c] = st.f]
    /\ projects' = st.db.projects
    /\ dependencies' = st.db.dependencies
    /\ next_project_id' = st.db.next_project_id
    /\ next_dependency_id' = st.db.next_dependency_id
    /\ UNCHANGED waitvars
    /\ UNCHANGED policyvars
    /\ UNCHANGED lockvars
    /\ UNCHANGED ret

\* query_osv_batch from its entry to its first suspension: phase 1, then
\* either the request is sent (suspended in client.post) or phase 3 runs up
\* to its first sleep or to the return.
Enter(f0) ==
    LET st == Phase1([cache |-> cache, f |-> [f0 EXCEPT !.now = clock]],
                     DepKeys(f0.requirements)) IN
    Settle([cache |-> st.cache,
            f |-> IF st.f.to_fetch # <<>> THEN Request(st.f)
                  ELSE Phase3(st.f, st.cache),
            db |-> Db], clock)

\* A request handler (create_project) calls query_osv_batch
Call(c, name, requirements) ==
    /\ call[c].pc \in {"idle", "returned", "raised"}
    /\ ncalls < MaxCalls
    /\ Commit(c, Enter([IdleFrame EXCEPT !.kind = "create", !.name = name,
                                         !.requirements = requirements]))
    /\ ncalls' = ncalls + 1
    /\ UNCHANGED <<clock, stuck, fetchlog>>

\* The scheduled scan starts (scheduler.py 60-86); with nothing stale it ends
ScanStart(order) ==
    /\ call[Scan].pc \in {"idle", "returned", "raised"}
    /\ ncalls < MaxCalls
    /\ LET stale_deps_reqs == StaleReqs(order, cache, clock) IN
       IF stale_deps_reqs = <<>>
       THEN /\ call' = [call EXCEPT ![Scan] =
                          [IdleFrame EXCEPT !.kind = "scan", !.skipped = Skipped(order)]]
            /\ UNCHANGED <<cache, projects, dependencies, next_project_id,
                           next_dependency_id>>
            /\ UNCHANGED waitvars
            /\ UNCHANGED policyvars
            /\ UNCHANGED lockvars
            /\ UNCHANGED ret
       ELSE Commit(Scan, Enter([IdleFrame EXCEPT !.kind = "scan",
                                                 !.skipped = Skipped(order),
                                                 !.requirements = stale_deps_reqs]))
    /\ ncalls' = ncalls + 1
    /\ UNCHANGED <<clock, stuck, fetchlog>>

\* The request succeeds with one result per query (lines 96-108), then phase 3.
FetchOk(c, batch) ==
    /\ call[c].pc = "fetching"
    /\ Len(batch) = Len(call[c].to_fetch)
    /\ LET st == Phase2([cache |-> cache, f |-> [call[c] EXCEPT !.resp = batch],
                         raised |-> FALSE],
                        call[c].to_fetch, batch, clock) IN
       Commit(c, Settle([cache |-> st.cache,
                         f |-> IF st.raised THEN [st.f EXCEPT !.pc = "raised"]
                               ELSE Phase3(st.f, st.cache),
                         db |-> Db], clock))
    /\ fetchlog' = [k \in Keys |->
                      fetchlog[k] \o [j \in 1..Cardinality({i \in DOMAIN batch :
                                                              call[c].to_fetch[i] = k})
                                       |-> batch[CHOOSE i \in DOMAIN batch :
                                                   call[c].to_fetch[i] = k]]]
    /\ UNCHANGED <<clock, ncalls, stuck>>

\* Mutant: a failed request releases its claims
FetchFailRelease(c, error) ==
    /\ call[c].pc = "fetching"
    /\ Commit(c, Settle([cache |-> [k \in DOMAIN cache \ call[c].claimed |-> cache[k]],
                         f |-> [call[c] EXCEPT !.pc = "raised", !.failed = TRUE,
                                               !.error = error],
                         db |-> Db], clock))
    /\ stuck' = stuck \cup call[c].claimed
                     \cup { RefreshKey(k) : k \in call[c].refreshing }
    /\ UNCHANGED <<clock, ncalls, fetchlog>>

\* The request fails: raise_for_status raises httpx.HTTPStatusError (line 95)
\* or client.post raises a transport error (line 94)
FetchFail(c, error) ==
    /\ call[c].pc = "fetching"
    /\ Commit(c, Settle([cache |-> cache,
                         f |-> [call[c] EXCEPT !.pc = "raised", !.failed = TRUE,
                                               !.error = error],
                         db |-> Db], clock))
    /\ stuck' = stuck \cup call[c].claimed
                     \cup { RefreshKey(k) : k \in call[c].refreshing }
    /\ UNCHANGED <<clock, ncalls, fetchlog>>

\* asyncio.sleep(poll_interval) ends (cache.py 37-43): the loop condition
\* finds the timeout elapsed (wait_for_ready returns None) or polls again.
Wake(c, timedout) ==
    /\ call[c].pc = "sleeping"
    /\ LET f == call[c]
           key == f.waiters[f.widx] IN
       \E g \in {IF timedout THEN Phase3(TimedOut(f, key), cache) ELSE Phase3(f, cache)} :
          \E st \in {Settle([cache |-> cache, f |-> g, db |-> Db], clock)} : Commit(c, st)
    /\ UNCHANGED <<clock, ncalls, stuck, fetchlog>>

\* The expiry timestamps that still lie ahead
Pending == { Val(cache[k].expiry_timestamp) :
               k \in { x \in DOMAIN cache : /\ ~IsNone(cache[x].expiry_timestamp)
                                            /\ Val(cache[x].expiry_timestamp) >= clock } }

\* Time passes until just after the next expiry.  A wait lasts at most
\* timeout + poll_interval (about 5 s) and the shortest TTL is an hour, so no
\* entry expires while a caller sleeps in wait_for_ready.
Tick ==
    /\ Pending # {}
    /\ \A c \in Callers : call[c].pc # "sleeping"
    /\ clock' = 1 + CHOOSE e \in Pending : \A o \in Pending : e <= o
    /\ UNCHANGED <<cache, call, projects, dependencies, next_project_id,
                   next_dependency_id, ncalls, stuck, fetchlog>>
    /\ UNCHANGED waitvars
    /\ UNCHANGED policyvars
    /\ UNCHANGED lockvars
    /\ UNCHANGED ret

Next ==
    \/ \E c \in Handlers, name \in ProjectNames, requirements \in Inputs :
          Call(c, name, requirements)
    \/ \E order \in Orders(UniqueDeps(dependencies)) : ScanStart(order)
    \/ \E c \in Callers : \E batch \in Batches(Len(call[c].to_fetch)) : FetchOk(c, batch)
    \/ \E c \in Callers, error \in Errors : FetchFail(c, error)
    \/ \E c \in Callers, timedout \in BOOLEAN : Wake(c, timedout)
    \/ Tick

Spec == Init /\ [][Next]_vars

\* A request that is not answered fails in the end (httpx gives up after its
\* timeout), and a wait_for_ready that finds no 'ready' entry runs into its
\* timeout (cache.py 38: the loop ends once timeout has elapsed).
LiveSpec ==
    /\ Spec
    /\ \A c \in Callers :
          /\ WF_vars(\E error \in Errors : FetchFail(c, error))
          /\ WF_vars(Wake(c, TRUE))

(* --------------------------- the project API: create, update, delete *)
ApiNames == {"p", "q"}
ProjectIds == 1..2

\* A request handler (update_project) calls query_osv_batch
Update(c, project_id, name, requirements) ==
    /\ call[c].pc \in {"idle", "returned", "raised"}
    /\ ncalls < MaxCalls
    /\ Commit(c, Enter([IdleFrame EXCEPT !.kind = "update", !.name = name,
                                         !.project_id = project_id,
                                         !.requirements = requirements]))
    /\ ncalls' = ncalls + 1
    /\ UNCHANGED <<clock, stuck, fetchlog>>

\* The handler delete_project: it awaits nothing, so it is one step
Delete(project_id) ==
    LET r == delete_project(Db, project_id) IN
    /\ projects' = r.db.projects
    /\ dependencies' = r.db.dependencies
    /\ ret' = Some([op |-> "delete_project", project_id |-> project_id,
                    status |-> IF r.raised = "" THEN 200 ELSE 404])
    /\ UNCHANGED <<cache, clock, call, next_project_id, next_dependency_id,
                   ncalls, stuck, fetchlog>>
    /\ UNCHANGED waitvars
    /\ UNCHANGED policyvars
    /\ UNCHANGED lockvars

ApiNext ==
    \/ \E name \in ApiNames, requirements \in Inputs : Call("h1", name, requirements)
    \/ \E requirements \in Inputs : Update("h1", 1, "p", requirements)
    \/ \E project_id \in ProjectIds : Delete(project_id)
    \/ \E order \in Orders(UniqueDeps(dependencies)) : ScanStart(order)
    \/ \E c \in {"h1", Scan} : \E batch \in Batches(Len(call[c].to_fetch)) : FetchOk(c, batch)
    \/ \E c \in {"h1", Scan}, error \in Errors : FetchFail(c, error)
    \/ \E timedout \in BOOLEAN : Wake("h1", timedout)
    \/ Tick

ApiSpec == Init /\ [][ApiNext]_vars

(* ---------------------------------------------- the data store alone *)
MaxProjectId == 3
MaxDependencyId == 4

StoreIds == 1..MaxProjectId

\* The dependency lists the handlers hand to the store
StoreDeps ==
    { <<>>,
      DependenciesToStore(<<Requirement("foo", "1")>>, <<Crit>>),
      DependenciesToStore(<<Requirement("bar", "1"), Requirement("Foo", "1")>>, <<Clean, Clean>>) }

StoreFixed ==
    /\ UNCHANGED <<cache, clock, call, ncalls, stuck, fetchlog>>
    /\ UNCHANGED waitvars
    /\ UNCHANGED policyvars
    /\ UNCHANGED lockvars

StoreCommit(db) ==
    /\ projects' = db.projects
    /\ dependencies' = db.dependencies
    /\ next_project_id' = db.next_project_id
    /\ next_dependency_id' = db.next_dependency_id

StoreRet(op, project_id, name, deps, raised) ==
    Some([op |-> op, project_id |-> project_id, name |-> name, deps |-> deps,
          raised |-> raised])

StoreAdd(name) ==
    /\ next_project_id <= MaxProjectId
    /\ LET r == add_project(Db, name) IN
       /\ StoreCommit(r.db)
       /\ ret' = StoreRet("add_project", r.project_id, name, <<>>,
                          IF r.raised THEN "DuplicateProjectError" ELSE "")
    /\ StoreFixed

StoreUpdate(project_id, name) ==
    /\ LET r == update_project(Db, project_id, name) IN
       /\ StoreCommit(r.db)
       /\ ret' = StoreRet("update_project", project_id, name, <<>>, r.raised)
    /\ StoreFixed

StoreDelete(project_id) ==
    /\ LET r == delete_project(Db, project_id) IN
       /\ StoreCommit(r.db)
       /\ ret' = StoreRet("delete_project", project_id, "", <<>>, r.raised)
    /\ StoreFixed

StoreUpdateDependencies(project_id, deps) ==
    /\ next_dependency_id + Len(deps) <= MaxDependencyId + 1
    /\ StoreCommit(update_dependencies(Db, project_id, deps))
    /\ ret' = StoreRet("update_dependencies", project_id, "", deps, "")
    /\ StoreFixed

StoreNext ==
    \/ \E name \in ApiNames : StoreAdd(name)
    \/ \E project_id \in StoreIds, name \in ApiNames : StoreUpdate(project_id, name)
    \/ \E project_id \in StoreIds : StoreDelete(project_id)
    \/ \E project_id \in StoreIds, deps \in StoreDeps : StoreUpdateDependencies(project_id, deps)

StoreSpec == Init /\ [][StoreNext]_vars

(* ------------------------------------------- the cache lock, step by step *)
\* Each primitive of InMemoryAsyncCache is 'async with self._lock: body', and
\* osv.py 102-107 is 'acquire; try: pop; finally: release'.  A task runs
\* from one suspension point to the next; it is suspended in asyncio.sleep
\* (wait_for_ready), in client.post, or in acquire while the lock is taken.
LockOps == {"add_if_not_exists", "get", "set", "pop", "guard_pop"}

LockKeys == { DeriveKey(Requirement("foo", "1")),
              RefreshKey(DeriveKey(Requirement("foo", "1"))) }

LockEntries == { Fetching, CacheEntry("ready", Some(Clean), Some(clock + TTL_NONE)) }

\* Mutant: the guard is popped without taking the lock
FirstStepPopUnlocked(op) == IF op = "guard_pop" THEN "body" ELSE "acquire"

\* Every primitive starts by acquiring the lock
FirstStep(op) == "acquire"

\* Mutant: the lock is kept after the body
ReleasedKept(t) == Some(t)

\* 'async with' and 'finally' release the lock
Released(t) == None

\* What the body of the primitive does to _store
ApplyOp(s, op, key, entry) ==
    IF op = "add_if_not_exists" THEN add_if_not_exists(s, key, entry).cache
    ELSE IF op = "set" THEN set(s, key, entry)
    ELSE IF op \in {"pop", "guard_pop"} THEN pop(s, key)
    ELSE s

LockFixed ==
    /\ UNCHANGED <<clock, call, projects, dependencies, next_project_id,
                   next_dependency_id, ncalls, stuck, fetchlog>>
    /\ UNCHANGED waitvars
    /\ UNCHANGED policyvars
    /\ UNCHANGED ret

\* The event loop resumes a task that is not running
TaskResume(t) ==
    /\ running = None
    /\ task[t].pc \in {"idle", "sleeping", "requesting"}
    /\ running' = Some(t)
    /\ task' = [task EXCEPT ![t].pc = "ready"]
    /\ UNCHANGED <<cache, lock>>
    /\ LockFixed

\* The running task calls a primitive
TaskBegin(t, op, key) ==
    /\ running = Some(t) /\ task[t].pc = "ready"
    /\ task' = [task EXCEPT ![t] = [pc |-> FirstStep(op), op |-> op, key |-> key,
                                    raised |-> FALSE]]
    /\ UNCHANGED <<cache, lock, running>>
    /\ LockFixed

\* asyncio.Lock.acquire: taken at once when the lock is free
LockAcquire(t) ==
    /\ running = Some(t) /\ task[t].pc = "acquire"
    /\ lock = None
    /\ lock' = Some(t)
    /\ task' = [task EXCEPT ![t].pc = "body"]
    /\ UNCHANGED <<cache, running>>
    /\ LockFixed

\* The body reads or writes _store, or raises
TaskBody(t, entry, raises) ==
    /\ running = Some(t) /\ task[t].pc = "body"
    /\ cache' = IF raises THEN cache ELSE ApplyOp(cache, task[t].op, task[t].key, entry)
    /\ task' = [task EXCEPT ![t].pc = "release", ![t].raised = raises]
    /\ UNCHANGED <<lock, running>>
    /\ LockFixed

\* __aexit__ / finally: the lock is released, an exception goes on to end
\* the task
LockRelease(t) ==
    /\ running = Some(t) /\ task[t].pc = "release"
    /\ lock' = Released(t)
    /\ task' = [task EXCEPT ![t].pc = IF task[t].raised THEN "idle" ELSE "ready"]
    /\ running' = IF task[t].raised THEN None ELSE running
    /\ UNCHANGED cache
    /\ LockFixed

\* wait_for_ready: asyncio.sleep(poll_interval) after a get (cache.py 39-42)
TaskSleep(t) ==
    /\ running = Some(t) /\ task[t].pc = "ready" /\ task[t].op = "get"
    /\ task' = [task EXCEPT ![t].pc = "sleeping"]
    /\ running' = None
    /\ UNCHANGED <<cache, lock>>
    /\ LockFixed

\* query_osv_batch: client.post after the claims of phase 1 (osv.py 93-94)
TaskPost(t) ==
    /\ running = Some(t) /\ task[t].pc = "ready" /\ task[t].op = "add_if_not_exists"
    /\ task' = [task EXCEPT ![t].pc = "requesting"]
    /\ running' = None
    /\ UNCHANGED <<cache, lock>>
    /\ LockFixed

\* The task returns
TaskEnd(t) ==
    /\ running = Some(t) /\ task[t].pc = "ready" /\ task[t].op # ""
    /\ task' = [task EXCEPT ![t].pc = "idle"]
    /\ running' = None
    /\ UNCHANGED <<cache, lock>>
    /\ LockFixed

LockNext ==
    \/ \E t \in Handlers : TaskResume(t)
    \/ \E t \in Handlers, op \in LockOps, key \in LockKeys : TaskBegin(t, op, key)
    \/ \E t \in Handlers : LockAcquire(t)
    \/ \E t \in Handlers, entry \in LockEntries, raises \in BOOLEAN : TaskBody(t, entry, raises)
    \/ \E t \in Handlers : LockRelease(t)
    \/ \E t \in Handlers : TaskSleep(t)
    \/ \E t \in Handlers : TaskPost(t)
    \/ \E t \in Handlers : TaskEnd(t)

\* The event loop goes on running the task it resumed
LockSpec ==
    /\ Init /\ [][LockNext]_vars
    /\ \A t \in Handlers :
          WF_vars(LockAcquire(t) \/ LockRelease(t)
                    \/ \E entry \in LockEntries : TaskBody(t, entry, FALSE))

(* ------------------------------------------- the cache primitives alone *)
CacheKeys == Keys \cup { RefreshKey(k) : k \in Keys }

Entries == { Fetching,
             CacheEntry("ready", Some(Clean), Some(clock + TTL_NONE)),
             CacheEntry("ready", Some(Crit), Some(clock + TTL_CRITICAL)) }

CacheFixed ==
    /\ UNCHANGED <<clock, call, projects, dependencies, next_project_id,
                   next_dependency_id, ncalls, stuck, fetchlog>>
    /\ UNCHANGED waitvars
    /\ UNCHANGED policyvars
    /\ UNCHANGED lockvars

\* await cache.add_if_not_exists(key, entry)
CacheAdd(key, entry) ==
    /\ cache' = add_if_not_exists(cache, key, entry).cache
    /\ ret' = Some([op |-> "add_if_not_exists", key |-> key, entry |-> Some(entry),
                    added |-> add_if_not_exists(cache, key, entry).added, found |-> None])
    /\ CacheFixed

\* await cache.get(key)
CacheGet(key) ==
    /\ ret' = Some([op |-> "get", key |-> key, entry |-> None,
                    added |-> FALSE, found |-> get(cache, key)])
    /\ UNCHANGED cache
    /\ CacheFixed

\* await cache.set(key, entry)
CacheSet(key, entry) ==
    /\ cache' = set(cache, key, entry)
    /\ ret' = Some([op |-> "set", key |-> key, entry |-> Some(entry),
                    added |-> FALSE, found |-> None])
    /\ CacheFixed

\* await cache.pop(key)
CachePop(key) ==
    /\ cache' = pop(cache, key)
    /\ ret' = Some([op |-> "pop", key |-> key, entry |-> None,
                    added |-> FALSE, found |-> get(cache, key)])
    /\ CacheFixed

CacheNext ==
    \/ \E key \in CacheKeys, entry \in Entries : CacheAdd(key, entry)
    \/ \E key \in CacheKeys : CacheGet(key)
    \/ \E key \in CacheKeys, entry \in Entries : CacheSet(key, entry)
    \/ \E key \in CacheKeys : CachePop(key)

CacheSpec == Init /\ [][CacheNext]_vars

(* ------------------------------- responses of an unexpected length *)
\* The result lists with fewer or more results than n queries
ShapeBatches(n) == UNION { Batches(m) : m \in (0..(n + 1)) \ {n} }

\* The request is answered with status 200 and a result list whose length
\* differs from the number of queries (lines 96-108), then phase 3
FetchMismatch(c, batch) ==
    /\ call[c].pc = "fetching"
    /\ Len(batch) # Len(call[c].to_fetch)
    /\ LET st == Phase2([cache |-> cache, f |-> [call[c] EXCEPT !.resp = batch],
                         raised |-> FALSE],
                        call[c].to_fetch, batch, clock) IN
       Commit(c, Settle([cache |-> st.cache,
                         f |-> IF st.raised THEN [st.f EXCEPT !.pc = "raised"]
                               ELSE Phase3(st.f, st.cache),
                         db |-> Db], clock))
    /\ fetchlog' = [k \in Keys |->
                      IF \E i \in DOMAIN batch \cap DOMAIN call[c].to_fetch :
                            call[c].to_fetch[i] = k
                      THEN Append(fetchlog[k],
                                  batch[CHOOSE i \in DOMAIN batch \cap DOMAIN call[c].to_fetch :
                                          call[c].to_fetch[i] = k])
                      ELSE fetchlog[k]]
    /\ UNCHANGED <<clock, ncalls, stuck>>

ShapeNext ==
    \/ \E c \in Handlers, name \in ProjectNames, requirements \in Inputs :
          Call(c, name, requirements)
    \/ \E c \in Handlers : \E batch \in Batches(Len(call[c].to_fetch)) : FetchOk(c, batch)
    \/ \E c \in Handlers : \E batch \in ShapeBatches(Len(call[c].to_fetch)) :
          FetchMismatch(c, batch)
    \/ \E c \in Handlers, error \in Errors : FetchFail(c, error)
    \/ \E c \in Handlers, timedout \in BOOLEAN : Wake(c, timedout)
    \/ Tick

ShapeSpec == Init /\ [][ShapeNext]_vars

(* ------------------------------------------------ the TTL policy alone *)
\* Severity labels as they may come from the OSV service: the four
\* categories, one of them in lower case, and a label outside the ranking
Labels == {"CRITICAL", "HIGH", "MODERATE", "LOW", "high", "CVSS_V3"}

\* Vulnerabilities: at most one top-level severity and at most one
\* affected package, with or without a severity
Vulns ==
    { [id |-> "V", severity |-> sev, affected |-> aff] :
        sev \in {<<>>} \cup { <<l>> : l \in Labels },
        aff \in {<<>>, << <<>> >>} \cup { << <<l>> >> : l \in {"CRITICAL", "LOW", "CVSS_V3"} } }

VulnLists == UNION { [1..n -> Vulns] : n \in 0..MaxVulns }

PolicyInit ==
    /\ BaseInit
    /\ vulns_in \in VulnLists
    /\ highest_out = None
    /\ ttl_out = None

PolicyFixed ==
    /\ UNCHANGED <<cache, clock, call, projects, dependencies, next_project_id,
                   next_dependency_id, ncalls, stuck, fetchlog>>
    /\ UNCHANGED waitvars
    /\ UNCHANGED ret
    /\ UNCHANGED lockvars

\* _extract_highest_severity(vulns_in) is called
Extract ==
    /\ IsNone(highest_out)
    /\ highest_out' = Some(ExtractHighestSeverity(vulns_in))
    /\ UNCHANGED <<vulns_in, ttl_out>>
    /\ PolicyFixed

\* _calculate_ttl(vulns_in) is called
Calculate ==
    /\ IsNone(ttl_out)
    /\ ttl_out' = Some(CalculateTtl(vulns_in))
    /\ UNCHANGED <<vulns_in, highest_out>>
    /\ PolicyFixed

\* One more vulnerability is appended to an evaluated list and the list is
\* evaluated again
AppendVuln(v) ==
    /\ ~IsNone(highest_out) /\ ~IsNone(ttl_out)
    /\ Len(vulns_in) < MaxVulns
    /\ vulns_in' = Append(vulns_in, v)
    /\ highest_out' = Some(ExtractHighestSeverity(vulns_in'))
    /\ ttl_out' = Some(CalculateTtl(vulns_in'))
    /\ PolicyFixed

PolicyNext ==
    \/ Extract
    \/ Calculate
    \/ \E v \in Vulns : AppendVuln(v)

PolicySpec == PolicyInit /\ [][PolicyNext]_vars

(* ------------------------------------ entries stored without an expiry *)
\* A user of the cache stores a 'ready' entry and gives no expiry_timestamp
\* (the field's default, None), before the first call
Seed(key, data) ==
    /\ ncalls = 0
    /\ key \notin DOMAIN cache
    /\ cache' = set(cache, key, CacheEntry("ready", Some(data), None))
    /\ UNCHANGED <<clock, call, projects, dependencies, next_project_id,
                   next_dependency_id, ncalls, stuck, fetchlog>>
    /\ UNCHANGED waitvars
    /\ UNCHANGED policyvars
    /\ UNCHANGED lockvars
    /\ UNCHANGED ret

SeedNext ==
    \/ \E key \in Keys, data \in OsvAnswers : Seed(key, data)
    \/ Next

SeedSpec == Init /\ [][SeedNext]_vars

(* ------------------------------- request handlers with repeated identities *)
DupNext ==
    \/ \E c \in Handlers, name \in ProjectNames, requirements \in DupInputs :
          Call(c, name, requirements)
    \/ \E c \in Handlers : \E batch \in Batches(Len(call[c].to_fetch)) : FetchOk(c, batch)
    \/ \E c \in Handlers, error \in Errors : FetchFail(c, error)
    \/ \E c \in Handlers, timedout \in BOOLEAN : Wake(c, timedout)
    \/ Tick

DupSpec == Init /\ [][DupNext]_vars

(* ------------------------------------------- wait_for_ready on its own *)
MainVars == <<clock, call, projects, dependencies, next_project_id,
              next_dependency_id, ncalls, stuck, fetchlog>>

\* Lines 36-37 and the first pass of the loop
WaitStart(key, timeout, poll_interval) ==
    /\ waiter.pc \in {"idle", "done"}
    /\ mono + MaxTimeout + MaxPollInterval <= MaxMono
    /\ waiter' = Poll([IdleWaiter EXCEPT !.key = Some(key), !.timeout = timeout,
                                         !.poll_interval = poll_interval,
                                         !.start = mono], cache, mono)
    /\ UNCHANGED <<cache, mono, readyAt>>
    /\ UNCHANGED MainVars
    /\ UNCHANGED policyvars
    /\ UNCHANGED lockvars
    /\ UNCHANGED ret

\* asyncio.sleep(poll_interval) is over, no earlier than after poll_interval;
\* the loop runs its next pass
WaitWake ==
    /\ waiter.pc = "sleeping"
    /\ mono >= waiter.wake
    /\ waiter' = Poll(waiter, cache, mono)
    /\ UNCHANGED <<cache, mono, readyAt>>
    /\ UNCHANGED MainVars
    /\ UNCHANGED policyvars
    /\ UNCHANGED lockvars
    /\ UNCHANGED ret

\* Another task claims the key (add_if_not_exists of a 'fetching' entry)
OwnerClaim(key) ==
    /\ cache' = add_if_not_exists(cache, key, Fetching).cache
    /\ cache' # cache
    /\ UNCHANGED <<mono, waiter, readyAt>>
    /\ UNCHANGED MainVars
    /\ UNCHANGED policyvars
    /\ UNCHANGED lockvars
    /\ UNCHANGED ret

\* Another task stores the fetched data (cache.set of a 'ready' entry)
OwnerSet(key, data) ==
    /\ cache' = set(cache, key, CacheEntry("ready", Some(data),
                                           Some(clock + CalculateTtl(data).value)))
    /\ cache' # cache
    /\ readyAt' = IF IsNone(readyAt[key]) THEN [readyAt EXCEPT ![key] = Some(mono)]
                                          ELSE readyAt
    /\ UNCHANGED <<mono, waiter>>
    /\ UNCHANGED MainVars
    /\ UNCHANGED policyvars
    /\ UNCHANGED lockvars
    /\ UNCHANGED ret

\* The monotonic clock advances
Advance ==
    /\ mono < MaxMono
    /\ mono' = mono + 1
    /\ UNCHANGED <<cache, waiter, readyAt>>
    /\ UNCHANGED MainVars
    /\ UNCHANGED policyvars
    /\ UNCHANGED lockvars
    /\ UNCHANGED ret

WaitNext ==
    \/ \E key \in Keys, timeout \in Timeouts, poll_interval \in PollIntervals :
          WaitStart(key, timeout, poll_interval)
    \/ WaitWake
    \/ \E key \in Keys : OwnerClaim(key)
    \/ \E key \in Keys, data \in OsvAnswers : OwnerSet(key, data)
    \/ Advance

\* The event loop resumes a sleeper whose delay is over, and time passes
WaitSpec == Init /\ [][WaitNext]_vars /\ WF_vars(WaitWake) /\ WF_vars(Advance)

(* ------------------------------------------------------------ properties *)
Range(q) == { q[i] : i \in DOMAIN q }

InFlight(c) == call[c].pc = "fetching"

\* The positions of key in the call's input
Positions(f, key) == { i \in DOMAIN f.requirements : DeriveKey(f.requirements[i]) = key }

\* C1: for each cache key at most one in-flight external request (first-time
\* fetch or refresh, by a handler or by the scan) includes it, each request
\* lists it once, and each claim (the primary key 'fetching' or the ':refresh'
\* guard) is held by exactly one caller: the one whose request is in flight.
C1_OneFetchInFlight ==
    /\ \A k \in Keys :
         Cardinality({ c \in Callers : InFlight(c) /\ k \in Range(call[c].to_fetch) }) <= 1
    /\ \A c \in Callers : InFlight(c) =>
         /\ \A i, j \in DOMAIN call[c].to_fetch :
               call[c].to_fetch[i] = call[c].to_fetch[j] => i = j
         /\ Range(call[c].to_fetch) = call[c].claimed \cup call[c].refreshing
         /\ \A k \in call[c].claimed : get(cache, k) = Some(Fetching)
         /\ \A k \in call[c].refreshing : get(cache, RefreshKey(k)) = Some(Fetching)
    /\ \A k \in Keys :
         /\ (get(cache, k) = Some(Fetching)) =>
               \/ k \in stuck
               \/ \E c \in Callers : InFlight(c) /\ k \in call[c].claimed
         /\ (get(cache, RefreshKey(k)) # None) =>
               \/ RefreshKey(k) \in stuck
               \/ \E c \in Callers : InFlight(c) /\ k \in call[c].refreshing

\* Two callers asked for the same key while the first one's request is in
\* flight: the second sleeps in wait_for_ready; and a refresh is in flight
\* while another caller has been served the stale entry.
C1_Witness ==
    \E a, b \in Callers, k \in Keys :
        /\ a # b
        /\ InFlight(a) /\ k \in Range(call[a].to_fetch)
        /\ \/ call[b].pc = "sleeping" /\ k \in Range(call[b].waiters)
           \/ InFlight(b) /\ k \in DOMAIN call[b].stale

Returned(c) == call[c].pc = "returned"

\* The call's result at every position of key is d
OutIs(f, key, d) == \A i \in Positions(f, key) : Val(f.out)[i] = d

\* The keys the call waited for because another caller had claimed them
WaitedOnOther(f) == Range(f.waiters) \ f.claimed

\* C2 as stated: once the fetch a waiting caller B waited on has returned, the
\* result B returned for the key is the data of that fetch.
C2_WaiterGetsOwnersData ==
    \A b \in Callers : Returned(b) =>
        \A k \in WaitedOnOther(call[b]) :
            Len(fetchlog[k]) > call[b].since[k] =>
                OutIs(call[b], k, fetchlog[k][call[b].since[k] + 1])

\* C2 amended: a caller B that finds a key 'fetching' issues no request for
\* it; B's result for it is the data a fetch that resolved after B's triage
\* stored (the owner's fetch, when no TTL elapsed meanwhile) if the entry is
\* 'ready' at one of B's polls, and the empty result if B's wait timed out.
C2_WaiterGetsDataOrTimesOut ==
    \A b \in Callers : Returned(b) =>
        \A k \in WaitedOnOther(call[b]) :
            /\ k \notin Range(call[b].to_fetch)
            /\ k \in call[b].timed => OutIs(call[b], k, Clean)
            /\ k \notin call[b].timed =>
                 /\ \E i \in (call[b].since[k] + 1)..Len(fetchlog[k]) :
                        OutIs(call[b], k, fetchlog[k][i])
                 /\ call[b].now = clock =>
                        OutIs(call[b], k, fetchlog[k][call[b].since[k] + 1])

\* A caller waited on another caller's fetch and returned its non-empty data
C2_Witness ==
    \E b \in Callers, k \in Keys :
        /\ Returned(b) /\ k \in WaitedOnOther(call[b]) /\ k \notin call[b].timed
        /\ OutIs(call[b], k, Crit) /\ Positions(call[b], k) # {}

\* Where the result at input position i comes from, for a key not timed out:
\* the response position of the key if this call fetched it, else the entry
\* served in phase 1, else data a fetch stored while the call waited.
SourceOk(f, i) ==
    LET k == DeriveKey(f.requirements[i]) IN
    IF k \in Range(f.waiters)
    THEN \E n \in (f.since[k] + 1)..Len(fetchlog[k]) : Val(f.out)[i] = fetchlog[k][n]
    ELSE IF k \in Range(f.to_fetch)
    THEN \E j \in DOMAIN f.to_fetch : f.to_fetch[j] = k /\ Val(f.out)[i] = f.resp[j]
    ELSE IF k \in DOMAIN f.fresh THEN Val(f.out)[i] = f.fresh[k]
    ELSE k \in DOMAIN f.stale /\ Val(f.out)[i] = f.stale[k]

\* C3: a call that returns returns a list of the input's length whose position
\* i holds the result recorded for the key of input i, be it served from the
\* cache, fetched by this call or obtained by waiting.
C3_OrderPreserved ==
    \A c \in Callers : Returned(c) =>
        /\ Len(Val(call[c].out)) = Len(call[c].requirements)
        /\ \A i \in DOMAIN call[c].requirements :
              LET k == DeriveKey(call[c].requirements[i]) IN
              /\ Val(call[c].out)[i] = call[c].results[k]
              /\ k \notin call[c].timed => SourceOk(call[c], i)

\* A returned two-key call that fetched one key, got the other one otherwise,
\* and holds different results at the two positions
C3_Witness ==
    \E c \in Callers :
        /\ Returned(c) /\ Len(call[c].requirements) = 2
        /\ Len(call[c].to_fetch) = 1
        /\ Val(call[c].out)[1] # Val(call[c].out)[2]

\* C4: the result for an identity whose entry was 'ready' and expired at
\* triage is the stale data served then, also when this call refreshed it.
C4_StaleDataReturned ==
    \A c \in Callers : Returned(c) =>
        \A k \in DOMAIN call[c].stale : OutIs(call[c], k, call[c].stale[k])

\* The step of caller c that enters query_osv_batch
Enters(c) == call[c].pc \in {"idle", "returned", "raised"} /\ call'[c] # call[c]

\* C5: a call that finds K 'ready' and not expired returns exactly the cached
\* data for K, requests nothing for K and leaves K's entry (and its refresh
\* guard) as they were.
C5_FreshServedUntouched ==
    /\ [](\A c \in Callers, k \in Keys :
            k \in DOMAIN call[c].fresh =>
                /\ k \notin Range(call[c].to_fetch) \cup Range(call[c].waiters)
                /\ Returned(c) => OutIs(call[c], k, call[c].fresh[k]))
    /\ [][\A c \in Callers, k \in Keys :
            ( /\ Enters(c)
              /\ k \in Range(DepKeys(call'[c].requirements))
              /\ k \in DOMAIN cache /\ cache[k].status = "ready"
              /\ ~IsNone(cache[k].expiry_timestamp)
              /\ clock < Val(cache[k].expiry_timestamp) )
            => /\ cache'[k] = cache[k]
               /\ get(cache', RefreshKey(k)) = get(cache, RefreshKey(k))
               /\ k \in DOMAIN call'[c].fresh
               /\ call'[c].fresh[k] = Val(cache[k].data)]_vars

\* A returned call was served a non-empty fresh entry
C5_Witness ==
    \E c \in Callers, k \in Keys :
        /\ Returned(c) /\ k \in DOMAIN call[c].fresh /\ call[c].fresh[k] = Crit
        /\ Positions(call[c], k) # {}

\* C6: when a call's request fails the call raises and returns no result, the
\* step changes no cache entry, and every claim of the call (primary key or
\* ':refresh' guard) is still 'fetching'.
C6_FailureLeavesClaims ==
    /\ [](\A c \in Callers : call[c].failed => call[c].pc = "raised" /\ IsNone(call[c].out))
    /\ [][\A c \in Callers :
            (InFlight(c) /\ call'[c].failed)
            => /\ cache' = cache
               /\ \A k \in call[c].claimed : get(cache', k) = Some(Fetching)
               /\ \A k \in call[c].refreshing : get(cache', RefreshKey(k)) = Some(Fetching)]_vars

\* A call that had claimed a key first-time has failed
C6_Witness == \E c \in Callers : call[c].failed /\ call[c].claimed # {}

\* C7: after a failed request every key it had claimed stays 'fetching': no
\* request in flight includes it, neither a later call nor the scan makes it
\* 'ready', and a call that asked for it returned the empty result after its
\* wait timed out.
C7_FailedClaimStarves ==
    /\ \A x \in stuck : get(cache, x) = Some(Fetching)
    /\ \A k \in Keys : (k \in stuck \/ RefreshKey(k) \in stuck) =>
          \A c \in Callers : InFlight(c) => k \notin Range(call[c].to_fetch)
    /\ \A k \in Keys \cap stuck : \A c \in Callers :
          (Returned(c) /\ Positions(call[c], k) # {}) =>
              k \in call[c].timed /\ OutIs(call[c], k, Clean)

\* A key is stuck, a caller got the empty result for it after a timeout, it
\* is tracked in the store and the scan has passed it over
C7_Witness ==
    \E k \in Keys \cap stuck :
        /\ \E c \in Handlers : Returned(c) /\ k \in call[c].timed
        /\ k \in call[Scan].skipped

\* C8: a call whose wait on a key timed out never raises; it returns the empty
\* result at that key's positions, and its result at every other position is
\* what was fetched, served or waited for there.
C8_TimeoutFailsOpen ==
    \A c \in Callers : call[c].timed # {} =>
        /\ call[c].pc \in {"sleeping", "returned"}
        /\ Returned(c) =>
              \A i \in DOMAIN call[c].requirements :
                  IF DeriveKey(call[c].requirements[i]) \in call[c].timed
                  THEN Val(call[c].out)[i] = Clean
                  ELSE SourceOk(call[c], i)

\* A returned call timed out on one key and holds fetched data at another
C8_Witness ==
    \E c \in Callers :
        /\ Returned(c) /\ call[c].timed # {}
        /\ \E i \in DOMAIN call[c].requirements :
              /\ DeriveKey(call[c].requirements[i]) \notin call[c].timed
              /\ Val(call[c].out)[i] = Crit

\* C9: a wait_for_ready call always returns: whatever happens to the entry, a
\* sleeping waiter is due to wake less than timeout + poll_interval after its
\* start, and it eventually returns.
C9_WaitAlwaysReturns ==
    /\ [](waiter.pc = "sleeping" =>
             waiter.wake < waiter.start + waiter.timeout + waiter.poll_interval)
    /\ [](waiter.pc = "done" /\ IsNone(waiter.result) =>
             mono - waiter.start >= waiter.timeout)
    /\ (waiter.pc = "sleeping") ~> (waiter.pc = "done")

\* A wait returned the timed-out signal while the entry was still 'fetching'
C9_Witness ==
    /\ waiter.pc = "done" /\ IsNone(waiter.result)
    /\ get(cache, Val(waiter.key)) = Some(Fetching)

\* C10 as stated: if the entry became 'ready' before the timeout elapsed, the
\* wait returns data, not the timed-out signal.
C10_ReadyBeforeTimeout ==
    (/\ waiter.pc = "done"
     /\ ~IsNone(readyAt[Val(waiter.key)])
     /\ Val(readyAt[Val(waiter.key)]) - waiter.start < waiter.timeout)
    => ~IsNone(waiter.result)

\* C10, amended: a pass of the polling loop made before the timeout has
\* elapsed returns the entry's data if the entry is 'ready' at that moment
\* and goes back to sleep otherwise; the timed-out signal is returned only by
\* a pass made once the timeout has elapsed.
C10_ReadyAtPoll ==
    [][(waiter' # waiter /\ waiter'.pc # "idle") =>
        LET entry == get(cache, Val(waiter'.key))
            start == IF waiter.pc = "sleeping" THEN waiter.start ELSE mono IN
        IF mono - start >= waiter'.timeout
        THEN waiter'.pc = "done" /\ IsNone(waiter'.result)
        ELSE IF ~IsNone(entry) /\ Val(entry).status = "ready"
        THEN waiter'.pc = "done" /\ waiter'.result = Val(entry).data
        ELSE waiter'.pc = "sleeping"]_vars

\* A wait slept on a 'fetching' entry and then returned the data stored meanwhile
C10_Witness ==
    /\ waiter.pc = "done" /\ waiter.result = Some(Crit)
    /\ ~IsNone(readyAt[Val(waiter.key)])
    /\ Val(readyAt[Val(waiter.key)]) > waiter.start

\* The first occurrences of the elements of a sequence, in order
RECURSIVE FirstOccurrences(_)
FirstOccurrences(q) ==
    IF q = <<>> THEN <<>>
    ELSE LET r == FirstOccurrences(SubSeq(q, 1, Len(q) - 1)) IN
         IF q[Len(q)] \in Range(r) THEN r ELSE Append(r, q[Len(q)])

\* The keys a call claimed, first-time or for refresh, in triage order
Claims(f) ==
    LET Mine(k) == k \in f.claimed \cup f.refreshing IN
    FirstOccurrences(SelectSeq(DepKeys(f.requirements), Mine))

\* C11: a call sends at most one request: one if it claimed a key and none
\* otherwise, and the request names exactly the claimed keys, each once, in
\* triage order.
C11_OneRequestPerCall ==
    \A c \in Callers :
        /\ Len(call[c].sent) <= 1
        /\ Len(call[c].sent) = 1 <=> Claims(call[c]) # <<>>
        /\ Len(call[c].sent) = 1 => call[c].sent[1] = Claims(call[c])
        /\ InFlight(c) => Len(call[c].sent) = 1

\* A call whose input repeats an identity sent one request for two keys
C11_Witness ==
    \E c \in Callers :
        /\ Len(call[c].sent) = 1 /\ Len(call[c].sent[1]) = 2
        /\ Len(call[c].requirements) = 3

\* The step in which the request of caller c is answered
Answered(c) == call[c].pc = "fetching" /\ call'[c].pc # "fetching" /\ ~call'[c].failed

\* C12: when a call's request succeeds, every key it fetched is 'ready' with
\* the result returned for it and an expiry of the completion time plus the
\* TTL of that result, and the key's ':refresh' guard is gone.
C12_FetchStoresReady ==
    [][\A c \in Callers : Answered(c) =>
          \A j \in DOMAIN call[c].to_fetch :
              LET k == call[c].to_fetch[j]
                  res == call'[c].resp[j] IN
              /\ get(cache', k) = Some(CacheEntry("ready", Some(res),
                                        Some(clock + CalculateTtl(res).value)))
              /\ IsNone(get(cache', RefreshKey(k)))]_vars

\* A refresh request was answered: the entry holds the new data, no guard is left
C12_Witness ==
    \E c \in Callers : \E j \in DOMAIN call[c].resp :
        LET k == call[c].to_fetch[j] IN
        /\ k \in call[c].refreshing /\ call[c].resp[j] = Crit
        /\ get(cache, k) = Some(CacheEntry("ready", Some(Crit), Some(call[c].now + TTL_CRITICAL)))
        /\ IsNone(get(cache, RefreshKey(k)))

LabelSet(vs) ==
    UNION { { Upper(vs[i].severity[j]) : j \in DOMAIN vs[i].severity }
            \cup UNION { { Upper(vs[i].affected[a][j]) : j \in DOMAIN vs[i].affected[a] }
                         : a \in DOMAIN vs[i].affected }
            : i \in DOMAIN vs }

Categories == {"CRITICAL", "HIGH", "MODERATE", "LOW"}

\* The most severe category of a set of labels, LOW if there is none
MostSevere(L) ==
    IF "CRITICAL" \in L THEN "CRITICAL"
    ELSE IF "HIGH" \in L THEN "HIGH"
    ELSE IF "MODERATE" \in L THEN "MODERATE"
    ELSE "LOW"

Hours(n) == n * 3600

\* C14: the TTL policy never raises, whatever labels the list carries, and a
\* list with only unrecognized labels gets the fallback TTL of one hour.
C14_PolicyNeverRaises ==
    /\ ~IsNone(highest_out) => ~Val(highest_out).raised
    /\ ~IsNone(ttl_out) =>
          /\ ~Val(ttl_out).raised
          /\ (LabelSet(vulns_in) # {} /\ LabelSet(vulns_in) \cap Categories = {})
                => Val(ttl_out).value = Hours(1)

\* C15: whenever _calculate_ttl returns, it returns 24h for the empty list and
\* otherwise 1h if the highest severity is CRITICAL, 4h if HIGH, 12h if
\* MODERATE, 24h if LOW or if there is no severity, and 1h for a label outside
\* the table; a list whose highest severity became more severe by an appended
\* vulnerability gets no longer a TTL than before.
C15_TtlTable ==
    /\ [](~IsNone(ttl_out) /\ ~Val(ttl_out).raised =>
            LET L == LabelSet(vulns_in) IN
            Val(ttl_out).value =
                IF vulns_in = <<>> \/ L = {} THEN Hours(24)
                ELSE IF L \cap Categories = {} THEN Hours(1)
                ELSE CASE MostSevere(L) = "CRITICAL" -> Hours(1)
                       [] MostSevere(L) = "HIGH" -> Hours(4)
                       [] MostSevere(L) = "MODERATE" -> Hours(12)
                       [] MostSevere(L) = "LOW" -> Hours(24))
    /\ [][( /\ Len(vulns_in') = Len(vulns_in) + 1
            /\ ~IsNone(ttl_out) /\ ~Val(ttl_out).raised /\ ~Val(ttl_out').raised
            /\ LabelSet(vulns_in') \subseteq Categories )
          => Val(ttl_out').value <= Val(ttl_out).value]_vars

\* Two vulnerabilities, the more severe one HIGH: four hours
C15_Witness ==
    /\ Len(vulns_in) = 2 /\ MostSevere(LabelSet(vulns_in)) = "HIGH"
    /\ LabelSet(vulns_in) # {"HIGH"}
    /\ ttl_out = Some([raised |-> FALSE, value |-> Hours(4)])

\* C16: for a list whose labels are all among the four categories (in any
\* letter case) _extract_highest_severity returns the most severe category
\* among the top-level and the affected-package severities of all its
\* vulnerabilities, whatever their order, and LOW if there is no severity.
C16_HighestSeverity ==
    (~IsNone(highest_out) /\ LabelSet(vulns_in) \subseteq Categories) =>
        /\ ~Val(highest_out).raised
        /\ Val(highest_out).value = MostSevere(LabelSet(vulns_in))

\* CRITICAL is found in the affected package of the second vulnerability
C16_Witness ==
    /\ Len(vulns_in) = 2
    /\ vulns_in[1].severity = <<"high">> /\ vulns_in[1].affected = << <<>> >>
    /\ vulns_in[2].severity = <<"LOW">> /\ vulns_in[2].affected = << <<"CRITICAL">> >>
    /\ highest_out = Some([raised |-> FALSE, value |-> "CRITICAL"])

\* C17: over lists with labels among the four categories, appending a
\* vulnerability never makes the result less severe, and appending one that
\* is more severe than the result makes its severity the result.
C17_Monotonic ==
    [][( /\ Len(vulns_in') = Len(vulns_in) + 1
         /\ LabelSet(vulns_in') \subseteq Categories )
       => LET before == Val(highest_out).value
              after == Val(highest_out').value
              added == MostSevere(LabelSet(<<vulns_in'[Len(vulns_in')]>>)) IN
          /\ ~Val(highest_out').raised
          /\ Index(SEVERITY_ORDER, after) <= Index(SEVERITY_ORDER, before)
          /\ Index(SEVERITY_ORDER, added) < Index(SEVERITY_ORDER, before) => after = added]_vars

\* A MODERATE list was raised to CRITICAL by the vulnerability appended to it
C17_Witness ==
    /\ Len(vulns_in) = 2
    /\ LabelSet(<<vulns_in[1]>>) = {"MODERATE"}
    /\ LabelSet(<<vulns_in[2]>>) = {"CRITICAL"}
    /\ highest_out = Some([raised |-> FALSE, value |-> "CRITICAL"])
    /\ ~IsNone(ttl_out)

\* C18: a response whose result list is shorter or longer than the list of
\* queries makes the call fail as a whole: it raises, returns no result list
\* and the step stores nothing in the cache.
C18_MismatchRejected ==
    [][\A c \in Callers :
          ( /\ call[c].pc = "fetching" /\ call'[c].pc # "fetching"
            /\ ~call'[c].failed
            /\ Len(call'[c].resp) # Len(call[c].to_fetch) )
          => /\ call'[c].pc = "raised" /\ IsNone(call'[c].out)
             /\ cache' = cache]_vars

\* C19 as stated: no caller ever receives the empty ('no vulnerabilities')
\* result for a key that a failed request had claimed.
C19_NoCleanForFailedKey ==
    \A b \in Callers, k \in Keys \cap stuck :
        Returned(b) => \A i \in Positions(call[b], k) : Val(call[b].out)[i] # Clean

\* The store holds a record for key k that says 'not vulnerable'
StoredClean(k) ==
    \E i \in DOMAIN dependencies :
        /\ DeriveKey(Requirement(dependencies[i].name, dependencies[i].version)) = k
        /\ ~dependencies[i].is_vulnerable

\* C19, amended: the caller whose request failed gets the error and no
\* result list (its handler answers 502 or 500, never 201); a caller waiting
\* on a key the failed request had claimed is not told about the failure:
\* its wait times out, it gets the empty result for that key, and a handler
\* stores the dependency as not vulnerable.
C19_FailureOnlyToOwner ==
    /\ \A a \in Callers : call[a].failed =>
          /\ call[a].pc = "raised" /\ IsNone(call[a].out)
          /\ call[a].kind = "create" => call[a].status \in {500, 502}
    /\ \A b \in Callers, k \in Keys \cap stuck :
          (Returned(b) /\ Positions(call[b], k) # {}) =>
              /\ ~call[b].failed /\ k \in call[b].timed
              /\ \A i \in Positions(call[b], k) : Val(call[b].out)[i] = Clean
              /\ (call[b].kind = "create" /\ call[b].status = 201) => StoredClean(k)

\* The request of a failed and a waiter that created its project with the
\* failed key recorded as not vulnerable
C19_Witness ==
    \E a, b \in Handlers, k \in Keys \cap stuck :
        /\ call[a].failed /\ k \in call[a].claimed /\ call[a].status = 502
        /\ Returned(b) /\ k \in call[b].timed /\ call[b].status = 201
        /\ StoredClean(k)

\* Caller b timed out on key k, and since b's triage exactly one fetch of k
\* has succeeded: the one of the owner b was waiting for
OwnerFetched(b, k) ==
    /\ k \in call[b].timed
    /\ Len(fetchlog[k]) = call[b].since[k] + 1

\* C20: when a waiter has timed out on K and the owner's fetch of K succeeds,
\* K's entry is 'ready'; until it expires it holds the fetched data, not the
\* empty result the waiter substituted, and every call that triages K after
\* the fetch returns the fetched data for K.
C20_LateFetchStillStored ==
    \A b \in Callers, k \in Keys : OwnerFetched(b, k) =>
        LET D == fetchlog[k][Len(fetchlog[k])] IN
        /\ k \in DOMAIN cache /\ cache[k].status = "ready"
        /\ clock < Val(cache[k].expiry_timestamp) =>
              /\ cache[k].data = Some(D)
              /\ \A c \in Callers :
                    ( /\ Returned(c) /\ Positions(call[c], k) # {}
                      /\ call[c].since[k] = Len(fetchlog[k]) )
                    => OutIs(call[c], k, D)

\* The waiter returned the empty result, the owner's fetch stored a
\* vulnerability, and a later call was served it
C20_Witness ==
    \E b, c \in Callers, k \in Keys :
        /\ b # c /\ OwnerFetched(b, k)
        /\ Returned(b) /\ OutIs(call[b], k, Clean)
        /\ get(cache, k) # None /\ cache[k].data = Some(Crit)
        /\ Returned(c) /\ k \in DOMAIN call[c].fresh /\ Positions(call[c], k) # {}
        /\ call[c].since[k] = Len(fetchlog[k]) /\ OutIs(call[c], k, Crit)

\* C21: add_if_not_exists stores the entry and returns true exactly when the
\* key is absent; on a present key it returns false and changes no entry.
C21_AddIfNotExists ==
    [][( /\ <<cache, ret>>' # <<cache, ret>>
         /\ Val(ret').op = "add_if_not_exists" )
       => LET key == Val(ret').key
              entry == Val(Val(ret').entry) IN
          IF key \in DOMAIN cache
          THEN ~Val(ret').added /\ cache' = cache
          ELSE /\ Val(ret').added
               /\ DOMAIN cache' = DOMAIN cache \cup {key}
               /\ cache'[key] = entry
               /\ \A k \in DOMAIN cache : cache'[k] = cache[k]]_vars

\* An add on a key that holds a 'ready' entry returned false and the entry is
\* still there
C21_Witness ==
    /\ ~IsNone(ret) /\ Val(ret).op = "add_if_not_exists" /\ ~Val(ret).added
    /\ Val(ret).entry = Some(Fetching)
    /\ get(cache, Val(ret).key) # None /\ cache[Val(ret).key].status = "ready"

\* The (name, version) pairs of the dependency records
TrackedPairs == { [name |-> dependencies[i].name, version |-> dependencies[i].version] :
                    i \in DOMAIN dependencies }

\* The tracked pairs with no cache entry or with an expiry before now
StalePairs ==
    { r \in TrackedPairs :
        \/ DeriveKey(r) \notin DOMAIN cache
        \/ /\ ~IsNone(cache[DeriveKey(r)].expiry_timestamp)
           /\ Val(cache[DeriveKey(r)].expiry_timestamp) < clock }

\* C22: the scheduled scan passes to query_osv_batch each tracked (name,
\* version) pair whose cache entry is absent or expired, once and no other;
\* with no such pair it calls nothing and writes neither cache nor store.
C22_ScanPassesStalePairs ==
    [][\A order \in Orders(UniqueDeps(dependencies)) :
         ScanStart(order) =>
           LET reqs == call'[Scan].requirements IN
           /\ Range(reqs) = StalePairs
           /\ Len(reqs) = Cardinality(StalePairs)
           /\ StalePairs # {} => call'[Scan].pc # "idle"
           /\ StalePairs = {} =>
                /\ call'[Scan].pc = "idle" /\ call'[Scan].sent = <<>>
                /\ UNCHANGED <<cache, projects, dependencies, fetchlog>>]_vars

\* The scan queries one pair that two projects track, and passes over a
\* tracked pair whose entry is fresh
C22_Witness ==
    /\ call[Scan].pc = "fetching" /\ Len(call[Scan].requirements) = 1
    /\ call[Scan].sent = <<DepKeys(call[Scan].requirements)>>
    /\ call[Scan].skipped # {}
    /\ \E i, j \in DOMAIN dependencies :
          /\ i # j /\ dependencies[i].project_id # dependencies[j].project_id
          /\ dependencies[i].name = dependencies[j].name
          /\ dependencies[i].version = dependencies[j].version
          /\ DeriveKey(dependencies[i]) = DeriveKey(call[Scan].requirements[1])

\* The scan's call of query_osv_batch returns in this step
ScanCompletes == call'[Scan] # call[Scan] /\ call'[Scan].pc = "returned"

\* The positions of the scan's list that name the record's name and version
ScannedAt(f, dep) ==
    { i \in DOMAIN f.requirements :
        Lower(f.requirements[i].name) = dep.name /\ f.requirements[i].version = dep.version }

\* C23: when a scheduled scan completes, every store record whose name and
\* version it scanned has is_vulnerable and vulnerability_ids equal to the
\* scan's result for that dependency (true with the returned ids, or false
\* with no ids), and every other record is unchanged.
C23_ScanWritesBack ==
    [][ScanCompletes =>
         LET f == call'[Scan]
             osv_results == Val(f.out) IN
         /\ projects' = projects
         /\ DOMAIN dependencies' = DOMAIN dependencies
         /\ \A d \in DOMAIN dependencies :
              IF ScannedAt(f, dependencies[d]) = {}
              THEN dependencies'[d] = dependencies[d]
              ELSE \A i \in ScannedAt(f, dependencies[d]) :
                     dependencies'[d] =
                       [dependencies[d] EXCEPT
                          !.is_vulnerable = osv_results[i] # <<>>,
                          !.vulnerability_ids =
                             [v \in DOMAIN osv_results[i] |-> osv_results[i][v].id]]]_vars

\* A scan refetched a dependency that two projects track and that was
\* vulnerable: both records are now clean, a record of a dependency the scan
\* passed over is there too
C23_Witness ==
    /\ call[Scan].pc = "returned" /\ Len(call[Scan].requirements) = 1
    /\ call[Scan].sent # <<>> /\ Val(call[Scan].out) = <<Clean>>
    /\ fetchlog[DeriveKey(call[Scan].requirements[1])] = <<Crit, Clean>>
    /\ \E i, j, k \in DOMAIN dependencies :
          /\ dependencies[i].project_id # dependencies[j].project_id
          /\ ScannedAt(call[Scan], dependencies[i]) = {1}
          /\ ScannedAt(call[Scan], dependencies[j]) = {1}
          /\ ~dependencies[i].is_vulnerable /\ dependencies[i].vulnerability_ids = <<>>
          /\ ~dependencies[j].is_vulnerable /\ dependencies[j].vulnerability_ids = <<>>
          /\ ScannedAt(call[Scan], dependencies[k]) = {}

\* The store operation this step performed
Did(op) == ~IsNone(ret') /\ Val(ret').op = op

HasId(project_id) == \E i \in DOMAIN projects : projects[i].id = project_id

\* The name is held by a project other than project_id
HeldByOther(project_id, name) ==
    \E i \in DOMAIN projects : projects[i].id # project_id /\ projects[i].name = name

StoreUnchanged == UNCHANGED <<projects, dependencies, next_project_id, next_dependency_id>>

\* C24: no two projects in the store ever have the same name; add_project or
\* update_project with a name another project holds raises
\* DuplicateProjectError and changes neither projects nor dependencies;
\* update_project with the project's own current name succeeds.
C24_UniqueNames ==
    /\ [](\A i, j \in DOMAIN projects : projects[i].name = projects[j].name => i = j)
    /\ [][/\ (Did("add_project") /\ HeldByOther(0, Val(ret').name))
             => Val(ret').raised = "DuplicateProjectError" /\ StoreUnchanged
          /\ (/\ Did("update_project") /\ HasId(Val(ret').project_id)
              /\ HeldByOther(Val(ret').project_id, Val(ret').name))
             => Val(ret').raised = "DuplicateProjectError" /\ StoreUnchanged
          /\ (/\ Did("update_project")
              /\ \E i \in DOMAIN projects : /\ projects[i].id = Val(ret').project_id
                                            /\ projects[i].name = Val(ret').name)
             => Val(ret').raised = "" /\ projects' = projects]_vars

\* A rename to the name of the other project was refused; both projects are
\* there with their dependency records
C24_Witness ==
    /\ ~IsNone(ret) /\ Val(ret).op = "update_project"
    /\ Val(ret).raised = "DuplicateProjectError"
    /\ Len(projects) = 2 /\ dependencies # <<>>
    /\ \E i, j \in DOMAIN projects :
          /\ i # j /\ projects[i].id = Val(ret).project_id
          /\ projects[j].name = Val(ret).name /\ projects[i].name # Val(ret).name

\* The records of a list that are, or are not, the project's
OfProject(deps, project_id) ==
    LET Test(dep) == dep.project_id = project_id IN SelectSeq(deps, Test)

OfOthers(deps, project_id) ==
    LET Test(dep) == dep.project_id # project_id IN SelectSeq(deps, Test)

\* C25: delete_project on an existing id removes that project and all the
\* dependency records of that project, and nothing else; delete_project or
\* update_project on an id that is not there raises ProjectNotFoundError and
\* changes neither projects nor dependencies.
C25_DeleteProject ==
    [][/\ (Did("delete_project") /\ HasId(Val(ret').project_id))
          => LET Others(p) == p.id # Val(ret').project_id IN
             /\ Val(ret').raised = ""
             /\ projects' = SelectSeq(projects, Others)
             /\ dependencies' = OfOthers(dependencies, Val(ret').project_id)
             /\ UNCHANGED <<next_project_id, next_dependency_id>>
       /\ (Did("delete_project") /\ ~HasId(Val(ret').project_id))
          => Val(ret').raised = "ProjectNotFoundError" /\ StoreUnchanged
       /\ (Did("update_project") /\ ~HasId(Val(ret').project_id))
          => Val(ret').raised = "ProjectNotFoundError" /\ StoreUnchanged]_vars

\* A project with dependency records was deleted: it and its records are
\* gone, the other project and its records are there
C25_Witness ==
    /\ ~IsNone(ret) /\ Val(ret).op = "delete_project" /\ Val(ret).raised = ""
    /\ ~HasId(Val(ret).project_id) /\ Len(projects) = 1
    /\ OfProject(dependencies, Val(ret).project_id) = <<>>
    /\ Len(OfProject(dependencies, projects[1].id)) = 2
    /\ next_dependency_id = 4

\* C26: after update_dependencies(project, list) the project's records are
\* the entries of the list in order, all of them new records, and the
\* records of every other project are unchanged.
C26_UpdateDependencies ==
    [][Did("update_dependencies") =>
         LET project_id == Val(ret').project_id
             deps == Val(ret').deps
             mine == OfProject(dependencies', project_id) IN
         /\ Len(mine) = Len(deps)
         /\ \A i \in DOMAIN deps :
               /\ mine[i].name = deps[i].name /\ mine[i].version = deps[i].version
               /\ mine[i].is_vulnerable = deps[i].is_vulnerable
               /\ mine[i].vulnerability_ids = deps[i].vulnerability_ids
               /\ \A j \in DOMAIN dependencies : dependencies[j].id # mine[i].id
         /\ OfOthers(dependencies', project_id) = OfOthers(dependencies, project_id)
         /\ projects' = projects]_vars

\* A project that had two records was given a one-entry list: it has that
\* one record, with a new id, and another project's record is there
C26_Witness ==
    /\ ~IsNone(ret) /\ Val(ret).op = "update_dependencies" /\ Len(Val(ret).deps) = 1
    /\ Len(OfProject(dependencies, Val(ret).project_id)) = 1
    /\ OfProject(dependencies, Val(ret).project_id)[1].id = 4
    /\ OfOthers(dependencies, Val(ret).project_id) # <<>>

\* The handler's query fails in this step
QueryFails(c) == call[c].pc = "fetching" /\ call'[c].pc = "raised" /\ call'[c].failed

\* C27: when the vulnerability query fails during create_project or
\* update_project, the request is answered with the upstream error (502 Bad
\* Gateway) and projects and dependencies are exactly as they were.
C27_QueryFailureUpstreamError ==
    [][\A c \in Handlers :
         (QueryFails(c) /\ call[c].kind \in {"create", "update"})
           => /\ call'[c].status = 502
              /\ StoreUnchanged]_vars

\* The key's entry is 'ready' and its ':refresh' guard is in the cache
GuardedReady(key) ==
    /\ key \in DOMAIN cache /\ cache[key].status = "ready"
    /\ RefreshKey(key) \in DOMAIN cache

\* C28: a call that requests a 'ready' key whose ':refresh' guard another
\* caller holds takes the cached data for it during triage: the key is not
\* put among the waiters (so wait_for_ready is never called for it) and not
\* among the keys to fetch, and a call of such keys only returns at once.
C28_GuardedKeyServedAtOnce ==
    [][\A c \in Callers : Enters(c) =>
         LET f == call'[c]
             dep_keys == DepKeys(f.requirements) IN
         /\ \A i \in DOMAIN dep_keys :
               GuardedReady(dep_keys[i]) =>
                  /\ dep_keys[i] \notin Range(f.waiters)
                  /\ dep_keys[i] \notin Range(f.to_fetch)
                  /\ dep_keys[i] \notin f.claimed \cup f.refreshing
                  /\ dep_keys[i] \in DOMAIN f.results
                  /\ f.results[dep_keys[i]] = Val(cache[dep_keys[i]].data)
         /\ (dep_keys # <<>> /\ \A i \in DOMAIN dep_keys : GuardedReady(dep_keys[i]))
               => /\ f.pc = "returned" /\ f.sent = <<>>
                  /\ \A i \in DOMAIN dep_keys :
                        Val(f.out)[i] = Val(cache[dep_keys[i]].data)]_vars

\* While one caller's refresh of an expired key is in flight, another caller
\* asked for the key and has returned with the cached data, having sent
\* nothing and waited for nothing
C28_Witness ==
    \E b, c \in Callers, k \in Keys :
        /\ b # c /\ InFlight(b) /\ k \in call[b].refreshing
        /\ RefreshKey(k) \in DOMAIN cache
        /\ Returned(c) /\ call[c].now = clock /\ k \in DOMAIN call[c].stale
        /\ call[c].sent = <<>> /\ call[c].waiters = <<>>
        /\ OutIs(call[c], k, call[c].stale[k])

\* C29: the entry of a primary key only moves absent -> fetching -> ready ->
\* ready: through all calls of query_osv_batch and all scans an entry that is
\* there stays there, and a 'ready' entry stays 'ready'.
C29_EntryMovesForward ==
    [][\A k \in Keys :
         /\ k \in DOMAIN cache => k \in DOMAIN cache'
         /\ (k \in DOMAIN cache /\ cache[k].status = "ready")
              => /\ cache'[k].status = "ready"
                 /\ ~IsNone(cache'[k].data)]_vars

\* A key was fetched, expired and was refreshed: its entry is 'ready' with
\* the second answer, while the entry of another key is still 'fetching'
C29_Witness ==
    \E k, o \in Keys :
        /\ k \in DOMAIN cache /\ cache[k].status = "ready"
        /\ Len(fetchlog[k]) = 2 /\ cache[k].data = Some(fetchlog[k][2])
        /\ fetchlog[k][1] # fetchlog[k][2]
        /\ o \in DOMAIN cache /\ cache[o].status = "fetching"

\* The call's request was answered
FetchedOk(f) == f.sent # <<>> /\ ~f.failed /\ f.pc \notin {"fetching", "raised"}

\* C30: a call whose input names an identity more than once claims and
\* fetches the key once; it returns the same result at every position of the
\* identity; and a key the call itself fetched with success never gets the
\* empty result of a timeout.
C30_DuplicatesFetchedOnce ==
    \A c \in Handlers :
        LET f == call[c]
            dep_keys == DepKeys(f.requirements) IN
        /\ \A i, j \in DOMAIN f.to_fetch : f.to_fetch[i] = f.to_fetch[j] => i = j
        /\ \A r \in DOMAIN f.sent :
              /\ r = 1
              /\ \A i, j \in DOMAIN f.sent[r] : f.sent[r][i] = f.sent[r][j] => i = j
        /\ Returned(c) =>
              \A i, j \in DOMAIN dep_keys :
                  dep_keys[i] = dep_keys[j] => Val(f.out)[i] = Val(f.out)[j]
        /\ FetchedOk(f) =>
              \A j \in DOMAIN f.to_fetch :
                  /\ f.to_fetch[j] \notin f.timed
                  /\ Returned(c) => OutIs(f, f.to_fetch[j], f.resp[j])

\* A call listed an identity twice (in two spellings) next to another key:
\* it claimed and fetched the identity once, in one request for both keys,
\* waited for its own key and returned the fetched result at both positions
C30_Witness ==
    \E c \in Handlers, k \in Keys :
        LET f == call[c] IN
        /\ Returned(c) /\ FetchedOk(f)
        /\ Cardinality(Positions(f, k)) = 2 /\ Len(f.requirements) = 3
        /\ Len(f.sent) = 1 /\ Len(f.sent[1]) = 2
        /\ f.to_fetch[2] = k /\ f.waiters = <<k>> /\ f.resp = <<Clean, Crit>>
        /\ f.timed = {} /\ OutIs(f, k, Crit)

\* C31: a ':refresh' guard is in the cache only while a request that names
\* its primary key is in flight; once the request has ended, by success or by
\* failure, the guard is gone.
C31_GuardOnlyWhileInFlight ==
    \A k \in Keys :
        RefreshKey(k) \in DOMAIN cache
          => \E c \in Callers : InFlight(c) /\ k \in Range(call[c].to_fetch)

\* C32: the scan gives an entry a new expiry only with data that a request of
\* this scan returned for the key: for a key the scan did not fetch itself
\* (served from the cache while another caller holds the refresh guard, or
\* given the empty result of a timeout) the entry and the store records stay
\* as they are.
C32_ScanWritesFetchedOnly ==
    [][ScanCompletes =>
         LET f == call'[Scan] IN
         \A i \in DOMAIN f.requirements :
             LET k == DeriveKey(f.requirements[i]) IN
             k \notin f.claimed \cup f.refreshing
               => /\ get(cache', k) = get(cache, k)
                  /\ \A d \in DOMAIN dependencies :
                        ScannedAt(f, dependencies[d]) = {i}
                          => dependencies'[d] = dependencies[d]]_vars

\* C33: the data of a key is never rolled back: a 'ready' entry holds the
\* result of the latest response stored for the key, no write of a call or of
\* the scan puts back data that was read from the cache or fetched earlier.
C33_NoRollback ==
    \A k \in Keys :
        (k \in DOMAIN cache /\ cache[k].status = "ready" /\ fetchlog[k] # <<>>)
          => cache[k].data = Some(fetchlog[k][Len(fetchlog[k])])

\* The call of caller c is under way: suspended in the request or in a sleep
\* of wait_for_ready
Running(c) == call[c].pc \in {"fetching", "sleeping"}

\* C34: every call of query_osv_batch ends, by returning or by raising, in
\* every interleaving of the callers, given that each request is answered or
\* fails in the end; and a call never waits while its own request is
\* outstanding, so waiting callers cannot block each other.
C34_EveryCallTerminates ==
    /\ \A c \in Callers : Running(c) ~> call[c].pc \in {"returned", "raised"}
    /\ [](\A c \in Callers :
            call[c].pc = "sleeping" => call[c].to_fetch = <<>> \/ call[c].resp # <<>>)

\* A call fetched its own key, then waited for a key another caller had
\* claimed and never delivered, and returned after the timeout
C34_Witness ==
    \E c \in Callers :
        /\ Returned(c) /\ call[c].sent # <<>> /\ call[c].resp # <<>>
        /\ call[c].timed # {}
        /\ \A k \in call[c].timed : k \in DOMAIN cache /\ cache[k].status = "fetching"

\* The task is suspended, or not started
Suspended(t) == task[t].pc \in {"idle", "sleeping", "requesting"}

\* C35: a task that is suspended between two polls of wait_for_ready or in
\* the external request does not hold the cache lock; the lock is held only
\* within one primitive, so a task that calls a primitive finds the lock free
\* and its primitive completes.
C35_LockFreeWhileSuspended ==
    /\ [](\A t \in Handlers :
            /\ Suspended(t) => lock # Some(t)
            /\ lock = Some(t) => task[t].pc \in {"body", "release"}
            /\ task[t].pc = "acquire" => lock = None)
    /\ \A t \in Handlers : task[t].pc = "acquire" ~> task[t].pc \in {"ready", "idle"}

\* One task sleeps in wait_for_ready and another is suspended in its request
\* while the lock is free
C35_Witness ==
    \E t, u \in Handlers :
        /\ task[t].pc = "sleeping" /\ task[u].pc = "requesting"
        /\ lock = None /\ cache # [k \in {} |-> Fetching]

\* The task's primitive reads or writes _store in this step
Accesses(t) == task[t].pc = "body" /\ task'[t].pc = "release"

\* C36: every read and write of _store, the removal of the ':refresh' guard
\* by query_osv_batch included, is made by the task that holds the lock, and
\* the lock is free again after each primitive, also when its body raised.
C36_AccessUnderLock ==
    /\ [][\A t \in Handlers : Accesses(t) => lock = Some(t)]_vars
    /\ [][cache' # cache => \E t \in Handlers : Accesses(t) /\ lock = Some(t)]_vars
    /\ [][\A t \in Handlers :
            (task[t].pc = "release" /\ task'[t].pc # "release") => lock' = None]_vars

\* The removal of a guard raised inside the lock: the task has ended, the
\* lock is free and the other task has since taken and released it
C36_Witness ==
    \E t, u \in Handlers :
        /\ t # u /\ task[t].pc = "idle" /\ task[t].raised /\ task[t].op = "guard_pop"
        /\ task[u].pc = "ready" /\ task[u].op = "guard_pop" /\ ~task[u].raised
        /\ lock = None

\* The cache keys of a call: those of its input identities and their guards
OwnKeys(f) ==
    Range(DepKeys(f.requirements))
        \cup { RefreshKey(DepKeys(f.requirements)[i]) : i \in DOMAIN f.requirements }

\* C37: a call of query_osv_batch writes only the cache keys derived from its
\* own input identities and their ':refresh' guards: whenever an entry is
\* added, replaced or removed, the step is one of a call that owns the key,
\* whether the call succeeds or fails.
C37_OnlyOwnKeys ==
    [][\A k \in DOMAIN cache \cup DOMAIN cache' :
          get(cache', k) # get(cache, k)
            => \E c \in Callers :
                  /\ call'[c] # call[c] /\ k \in OwnKeys(call'[c])
                  /\ \A o \in Callers \ {c} : call'[o] = call[o]]_vars

\* A call for one identity fetched and returned while the cache holds the
\* entry and the refresh guard of another identity, put there by another call
C37_Witness ==
    \E c, o \in Callers, k \in Keys :
        /\ c # o /\ Returned(c) /\ call[c].sent # <<>> /\ call[c].resp # <<>>
        /\ k \notin OwnKeys(call[c])
        /\ k \in DOMAIN cache /\ RefreshKey(k) \in DOMAIN cache
        /\ InFlight(o) /\ k \in call[o].refreshing

\* C38: through all creations, updates and deletions by the route handlers,
\* interleaved at their awaits, every dependency record belongs to a project
\* that is in the store, project ids and dependency ids are unique, and no id
\* is used again after a deletion: every id in the store is below its
\* counter and the counters never go back.
C38_RecordsBelongToProjects ==
    /\ [](/\ \A d \in DOMAIN dependencies : HasId(dependencies[d].project_id)
          /\ \A i, j \in DOMAIN projects : projects[i].id = projects[j].id => i = j
          /\ \A i, j \in DOMAIN dependencies :
                dependencies[i].id = dependencies[j].id => i = j
          /\ \A i \in DOMAIN projects : projects[i].id < next_project_id
          /\ \A d \in DOMAIN dependencies : dependencies[d].id < next_dependency_id)
    /\ [][/\ next_project_id' >= next_project_id
          /\ next_dependency_id' >= next_dependency_id]_vars

\* A project was deleted while its update awaited the query: the update was
\* answered 'not found' and left no record behind
C38_Witness ==
    /\ call["h1"].kind = "update" /\ call["h1"].pc = "returned"
    /\ call["h1"].status = 404 /\ call["h1"].sent # <<>>
    /\ ~IsNone(ret) /\ Val(ret).op = "delete_project" /\ Val(ret).status = 200
    /\ projects = <<>> /\ dependencies = <<>>
    /\ next_project_id = 2 /\ next_dependency_id > 1

====
